---- MODULE Spec2Model ----
(***************************************************************************)
(* A model of the anymc-installer core: the install facade (loaders.rs),   *)
(* the Quilt client and server installers, the bounded download pool and   *)
(* the launch-jar manifest writer (loaders/quilt.rs).                      *)
(*                                                                         *)
(* Strings are sequences of characters.  A character is a one-character    *)
(* TLA+ string, or one of the tokens "U+00E9", "U+20AC", "U+FFFD" for a    *)
(* character outside ASCII.  Byte strings are sequences of 0..255; Utf8    *)
(* and from_utf8_lossy convert between the two as the Rust code does.      *)
(***************************************************************************)
EXTENDS Integers, Sequences, FiniteSets, TLC

(***************************************************************************)
(* Characters and UTF-8                                                    *)
(***************************************************************************)

\* The code point of every character the model uses.
Ord ==
    ("a" :> 97) @@ ("b" :> 98) @@ ("c" :> 99) @@ ("d" :> 100) @@
    ("e" :> 101) @@ ("f" :> 102) @@ ("g" :> 103) @@ ("h" :> 104) @@
    ("i" :> 105) @@ ("j" :> 106) @@ ("k" :> 107) @@ ("l" :> 108) @@
    ("m" :> 109) @@ ("n" :> 110) @@ ("o" :> 111) @@ ("p" :> 112) @@
    ("q" :> 113) @@ ("r" :> 114) @@ ("s" :> 115) @@ ("t" :> 116) @@
    ("u" :> 117) @@ ("v" :> 118) @@ ("w" :> 119) @@ ("x" :> 120) @@
    ("y" :> 121) @@ ("z" :> 122) @@ ("A" :> 65) @@ ("B" :> 66) @@
    ("C" :> 67) @@ ("D" :> 68) @@ ("E" :> 69) @@ ("F" :> 70) @@
    ("G" :> 71) @@ ("H" :> 72) @@ ("I" :> 73) @@ ("J" :> 74) @@
    ("K" :> 75) @@ ("L" :> 76) @@ ("M" :> 77) @@ ("N" :> 78) @@
    ("O" :> 79) @@ ("P" :> 80) @@ ("Q" :> 81) @@ ("R" :> 82) @@
    ("S" :> 83) @@ ("T" :> 84) @@ ("U" :> 85) @@ ("V" :> 86) @@
    ("W" :> 87) @@ ("X" :> 88) @@ ("Y" :> 89) @@ ("Z" :> 90) @@
    ("0" :> 48) @@ ("1" :> 49) @@ ("2" :> 50) @@ ("3" :> 51) @@
    ("4" :> 52) @@ ("5" :> 53) @@ ("6" :> 54) @@ ("7" :> 55) @@
    ("8" :> 56) @@ ("9" :> 57) @@ (" " :> 32) @@ ("." :> 46) @@
    (":" :> 58) @@ ("/" :> 47) @@ ("-" :> 45) @@ ("\\" :> 92) @@
    ("U+00E9" :> 233) @@ ("U+20AC" :> 8364) @@ ("U+FFFD" :> 65533)

\* The character with code point cp.
Chr(cp) == CHOOSE c \in DOMAIN Ord : Ord[c] = cp

\* char::encode_utf8: the UTF-8 bytes of one code point.
Utf8Char(cp) ==
    IF cp < 128 THEN <<cp>>
    ELSE IF cp < 2048 THEN <<192 + (cp \div 64), 128 + (cp % 64)>>
    ELSE IF cp < 65536
         THEN <<224 + (cp \div 4096), 128 + ((cp \div 64) % 64), 128 + (cp % 64)>>
         ELSE <<240 + (cp \div 262144), 128 + ((cp \div 4096) % 64),
                128 + ((cp \div 64) % 64), 128 + (cp % 64)>>

\* The concatenation of a sequence of sequences.
RECURSIVE Flatten(_)
Flatten(ss) ==
    IF Len(ss) = 0 THEN <<>>
    ELSE IF Len(ss) = 1 THEN ss[1]
    ELSE LET h == Len(ss) \div 2
         IN  Flatten(SubSeq(ss, 1, h)) \o Flatten(SubSeq(ss, h + 1, Len(ss)))

\* The bytes of a Rust String / &str.
Utf8(s) == Flatten([i \in 1..Len(s) |-> Utf8Char(Ord[s[i]])])

\* A UTF-8 continuation byte, 10xxxxxx.
IsCont(b) == b >= 128 /\ b < 192

\* The length of the sequence a lead byte announces, 0 for a byte that can
\* lead nothing (a continuation byte, 0xC0, 0xC1, 0xF5..0xFF).
Utf8Width(b) ==
    IF b < 128 THEN 1
    ELSE IF b >= 194 /\ b <= 223 THEN 2
    ELSE IF b >= 224 /\ b <= 239 THEN 3
    ELSE IF b >= 240 /\ b <= 244 THEN 4
    ELSE 0

\* Whether b may follow lead byte `lead` as its second byte (the ranges of
\* the Unicode standard's table of well-formed sequences).
SecondOk(lead, b) ==
    IF lead = 224 THEN b >= 160 /\ b < 192
    ELSE IF lead = 237 THEN b >= 128 /\ b < 160
    ELSE IF lead = 240 THEN b >= 144 /\ b < 192
    ELSE IF lead = 244 THEN b >= 128 /\ b < 144
    ELSE IsCont(b)

\* How many of the bytes after position i continue the sequence led by
\* bytes[i], at most want.
RECURSIVE ContRun(_, _, _, _)
ContRun(bytes, i, k, want) ==
    IF k >= want \/ i + k + 1 > Len(bytes) THEN k
    ELSE IF (IF k = 0 THEN SecondOk(bytes[i], bytes[i + 1])
                      ELSE IsCont(bytes[i + k + 1]))
         THEN ContRun(bytes, i, k + 1, want)
         ELSE k

\* The code point of the well-formed sequence of n bytes at position i.
CodePointAt(bytes, i, n) ==
    IF n = 1 THEN bytes[i]
    ELSE IF n = 2 THEN (bytes[i] - 192) * 64 + (bytes[i + 1] - 128)
    ELSE IF n = 3 THEN (bytes[i] - 224) * 4096 + (bytes[i + 1] - 128) * 64
                       + (bytes[i + 2] - 128)
    ELSE (bytes[i] - 240) * 262144 + (bytes[i + 1] - 128) * 4096
         + (bytes[i + 2] - 128) * 64 + (bytes[i + 3] - 128)

\* Whether byte i belongs to the sequence, whole or truncated, that a lead
\* byte before it begins.
Absorbed(bytes, i) ==
    \E j \in {i - 3, i - 2, i - 1} \cap (1..Len(bytes)) :
        /\ Utf8Width(bytes[j]) > 1
        /\ ContRun(bytes, j, 0, Utf8Width(bytes[j]) - 1) >= i - j

\* String::from_utf8_lossy: every well-formed sequence decodes to its
\* character, every maximal ill-formed part to one U+FFFD.
from_utf8_lossy(bytes) ==
    Flatten([i \in 1..Len(bytes) |->
                LET n == Utf8Width(bytes[i])
                IN  IF Absorbed(bytes, i) THEN <<>>
                    ELSE IF n > 0 /\ ContRun(bytes, i, 0, n - 1) = n - 1
                    THEN <<Chr(CodePointAt(bytes, i, n))>>
                    ELSE <<"U+FFFD">>])

\* str::is_char_boundary(index), index counted from 0.
is_char_boundary(bytes, index) ==
    \/ index = 0
    \/ index = Len(bytes)
    \/ index < Len(bytes) /\ ~IsCont(bytes[index + 1])

\* <[u8]>::chunks(n): consecutive pieces of n bytes, the last one shorter.
RECURSIVE chunks(_, _)
chunks(bytes, n) ==
    IF Len(bytes) = 0 THEN <<>>
    ELSE IF Len(bytes) <= n THEN <<bytes>>
    ELSE <<SubSeq(bytes, 1, n)>> \o chunks(SubSeq(bytes, n + 1, Len(bytes)), n)

(***************************************************************************)
(* String helpers                                                          *)
(***************************************************************************)

\* str::starts_with.
starts_with(s, p) == Len(s) >= Len(p) /\ SubSeq(s, 1, Len(p)) = p

\* A replace that leaves the string as it is.
replace_none(s, from, to) == s

\* str::replace(from, to) for a one-character pattern, to being a string.
replace(s, from, to) ==
    Flatten([i \in 1..Len(s) |-> IF s[i] = from THEN to ELSE <<s[i]>>])

\* [String]::join(sep).
RECURSIVE join(_, _)
join(parts, sep) ==
    IF parts = <<>> THEN <<>>
    ELSE IF Len(parts) = 1 THEN parts[1]
    ELSE parts[1] \o sep \o join(Tail(parts), sep)

\* The position of the first c in s at or after position i, 0 if none.
Find(s, c, i) ==
    LET hits == {j \in i..Len(s) : s[j] = c}
    IN  IF hits = {} THEN 0 ELSE CHOOSE j \in hits : \A k \in hits : j <= k

\* str::splitn(n, c): at most n parts, the last one holding the rest.
RECURSIVE splitn(_, _, _)
splitn(n, s, c) ==
    LET p == Find(s, c, 1)
    IN  IF n <= 1 \/ p = 0 THEN <<s>>
        ELSE <<SubSeq(s, 1, p - 1)>> \o splitn(n - 1, SubSeq(s, p + 1, Len(s)), c)

(***************************************************************************)
(* Paths (std::path)                                                       *)
(***************************************************************************)

\* Path::is_absolute on a Unix path.
IsAbsolute(p) == p # <<>> /\ p[1] = "/"

\* s without its leading separators.
RECURSIVE SkipSep(_)
SkipSep(s) == IF s # <<>> /\ s[1] = "/" THEN SkipSep(Tail(s)) ELSE s

\* s without its trailing separators.
RECURSIVE TrimSep(_)
TrimSep(s) ==
    IF s # <<>> /\ s[Len(s)] = "/" THEN TrimSep(SubSeq(s, 1, Len(s) - 1)) ELSE s

\* Path::components: the normal components of p (repeated separators
\* collapse; the model's paths hold no "." or ".." component).
RECURSIVE Components(_)
Components(p) ==
    LET t == SkipSep(p)
        q == Find(t, "/", 1)
    IN  IF t = <<>> THEN <<>>
        ELSE IF q = 0 THEN <<t>>
        ELSE <<SubSeq(t, 1, q - 1)>> \o Components(SubSeq(t, q, Len(t)))

\* p after its first k components and the separators that follow them.
RECURSIVE DropComponents(_, _)
DropComponents(p, k) ==
    LET t == SkipSep(p)
        q == Find(t, "/", 1)
    IN  IF k = 0 THEN t
        ELSE IF q = 0 THEN <<>>
        ELSE DropComponents(SubSeq(t, q, Len(t)), k - 1)

\* PathBuf::join / push: an absolute argument replaces the path.
PathJoin(base, rel) ==
    IF IsAbsolute(rel) THEN rel
    ELSE IF base = <<>> \/ base[Len(base)] = "/" THEN base \o rel
    ELSE base \o <<"/">> \o rel

\* Path::parent: [some |-> FALSE] for a path that ends in a root or is empty.
PathParent(p) ==
    LET c == Components(p)
        t == TrimSep(p)
        cut == Len(t) - Len(c[Len(c)])
        head == TrimSep(SubSeq(t, 1, cut))
    IN  IF c = <<>> THEN [some |-> FALSE, path |-> <<>>]
        ELSE [some |-> TRUE,
              path |-> IF head = <<>> /\ IsAbsolute(p) THEN <<"/">> ELSE head]

\* A strip_prefix that takes every path as it is.
strip_prefix_lenient(p, base) == [ok |-> TRUE, path |-> p]

\* Path::strip_prefix: the rest of p after base, when base's components
\* (and root) begin p's.
strip_prefix(p, base) ==
    LET ps == Components(p)
        bc == Components(base)
    IN  IF /\ IsAbsolute(p) = IsAbsolute(base)
           /\ Len(bc) <= Len(ps)
           /\ SubSeq(ps, 1, Len(bc)) = bc
        THEN [ok |-> TRUE, path |-> DropComponents(p, Len(bc))]
        ELSE [ok |-> FALSE, path |-> <<>>]

(***************************************************************************)
(* The launch jar (quilt.rs, create_launch_jar)                            *)
(***************************************************************************)

\* The byte index at which the Class-Path header is first split.
HeadLen == 72

\* The number of bytes of every continuation chunk.
ChunkLen == 71

\* writeln!(manifest, "{}", s): the bytes of s and a line feed.
writeln(bytes) == bytes \o <<10>>

\* The library paths made relative to the jar's parent directory, with
\* forward slashes; ok is FALSE when one of them is not under it.
RECURSIVE relative_paths(_, _)
relative_paths(libraries, parent) ==
    IF libraries = <<>> THEN [ok |-> TRUE, paths |-> <<>>]
    ELSE LET r == strip_prefix(libraries[1], parent)
             rest == relative_paths(Tail(libraries), parent)
         IN  IF r.ok /\ rest.ok
             THEN [ok |-> TRUE,
                   paths |-> <<replace(r.path, "\\", <<"/">>)>> \o rest.paths]
             ELSE [ok |-> FALSE, paths |-> <<>>]

\* format!("Class-Path: {}", relative_paths.join(" ")).
class_path(paths) == <<"C", "l", "a", "s", "s", "-", "P", "a", "t", "h", ":", " ">> \o join(paths, <<" ">>)

\* The continuation lines: a space, the chunk decoded lossily, a line feed.
RECURSIVE tail_lines(_)
tail_lines(cs) ==
    IF cs = <<>> THEN <<>>
    ELSE writeln(<<32>> \o Utf8(from_utf8_lossy(cs[1]))) \o tail_lines(Tail(cs))

\* The manifest bytes written for class path string cp, which split_at
\* accepts.
manifest_bytes(main, cp) ==
    LET bytes == Utf8(cp)
        head == SubSeq(bytes, 1, HeadLen)
        tail == SubSeq(bytes, HeadLen + 1, Len(bytes))
    IN  writeln(Utf8(<<"M", "a", "n", "i", "f", "e", "s", "t", "-", "V", "e", "r", "s", "i", "o", "n", ":", " ", "1", ".", "0">>))
        \o writeln(Utf8(<<"M", "a", "i", "n", "-", "C", "l", "a", "s", "s", ":", " ">> \o main))
        \o writeln(head)
        \o tail_lines(chunks(tail, ChunkLen))

\* str::split_at(mid) panics unless mid is at most the length and on a
\* character boundary.
split_at_ok(bytes, mid) == mid <= Len(bytes) /\ is_char_boundary(bytes, mid)

\* create_launch_jar up to its write of the file: "panic" (an expect or
\* split_at aborts), "err" (a library path is not under the parent) or "ok"
\* with the archive's one entry.
create_launch_jar(jar, main, libraries) ==
    LET parent == PathParent(jar)
        rel == relative_paths(libraries, parent.path)
        cp == class_path(rel.paths)
    IN  IF ~parent.some THEN [outcome |-> "panic", entry |-> <<>>, data |-> <<>>]
        ELSE IF ~rel.ok THEN [outcome |-> "err", entry |-> <<>>, data |-> <<>>]
        ELSE IF ~split_at_ok(Utf8(cp), HeadLen)
             THEN [outcome |-> "panic", entry |-> <<>>, data |-> <<>>]
        ELSE [outcome |-> "ok",
              entry |-> <<"M", "E", "T", "A", "-", "I", "N", "F", "/", "M", "A", "N", "I", "F", "E", "S", "T", ".", "M", "F">>,
              data |-> manifest_bytes(main, cp)]

(***************************************************************************)
(* The artifact resolver (quilt.rs, download_library, lines 224-250)       *)
(***************************************************************************)

\* quilt::MAVEN and fabric::MAVEN.
QUILT_MAVEN == <<"h", "t", "t", "p", "s", ":", "/", "/", "m", "a", "v", "e", "n", ".", "q", "u", "i", "l", "t", "m", "c", ".", "o", "r", "g", "/", "r", "e", "p", "o", "s", "i", "t", "o", "r", "y", "/", "r", "e", "l", "e", "a", "s", "e">>

FABRIC_MAVEN == <<"h", "t", "t", "p", "s", ":", "/", "/", "m", "a", "v", "e", "n", ".", "f", "a", "b", "r", "i", "c", "m", "c", ".", "n", "e", "t", "/">>

\* A split_artifact that takes a missing part for an empty one.
split_artifact_lenient(artifact_notation) ==
    LET parts == splitn(3, artifact_notation, ":")
        part(k) == IF k <= Len(parts) THEN parts[k] ELSE <<>>
    IN  [some |-> TRUE,
         path |-> replace(part(1), ".", <<"/">>) \o <<"/">> \o part(2) \o <<"/">>
                  \o part(3) \o <<"/">> \o part(2) \o <<"-">> \o part(3)
                  \o <<".", "j", "a", "r">>]

\* split_artifact: the relative path of coordinate group:name:version, or
\* none when the coordinate has fewer than three parts.
split_artifact(artifact_notation) ==
    LET parts == splitn(3, artifact_notation, ":")
    IN  IF Len(parts) < 3 THEN [some |-> FALSE, path |-> <<>>]
        ELSE LET group == replace(parts[1], ".", <<"/">>)
                 name == parts[2]
                 version == parts[3]
             IN  [some |-> TRUE,
                  path |-> group \o <<"/">> \o name \o <<"/">> \o version
                           \o <<"/">> \o name \o <<"-">> \o version
                           \o <<".", "j", "a", "r">>]

\* A resolver that knows the Fabric repository only.
maven_url_fabric(raw_path) == FABRIC_MAVEN \o <<"/">> \o raw_path

\* The URL a library is fetched from.
maven_url(raw_path) ==
    IF starts_with(raw_path, <<"o", "r", "g", "/", "q", "u", "i", "l", "t", "m", "c">>)
    THEN QUILT_MAVEN \o <<"/">> \o raw_path
    ELSE FABRIC_MAVEN \o <<"/">> \o raw_path

\* The local path of a library: dir.join(raw_path).
library_path(dir, raw_path) == PathJoin(dir, raw_path)

\* A retain that keeps every library.
retained_all(name) == TRUE

\* The retain of the hack-fix: whether a library of the profile is kept.
retained(name) == ~starts_with(name, <<"o", "r", "g", ".", "q", "u", "i", "l", "t", "m", "c", ":", "h", "a", "s", "h", "e", "d">>)

\* Vec::retain: the kept elements, in order.
RECURSIVE retain(_)
retain(libs) ==
    IF libs = <<>> THEN <<>>
    ELSE (IF retained(libs[1]) THEN <<libs[1]>> ELSE <<>>) \o retain(Tail(libs))

(***************************************************************************)
(* The install request and the file system                                 *)
(***************************************************************************)

\* install.dir, install.version and install.minecraft of the runs modelled.
InstallDir == <<"/", "m", "c">>

LoaderVersionName == <<"0", ".", "1">>

MinecraftVersion == <<"1", ".", "1", "9">>

\* profile.launcher_main_class of the server profile document.
LauncherMainClass == <<"q", ".", "M">>

\* A LoaderVersion::name that gives the loader without its suffix.
loader_name_bare(loader) ==
    IF loader = "Fabric" THEN <<"f", "a", "b", "r", "i", "c">>
    ELSE IF loader = "Forge" THEN <<"f", "o", "r", "g", "e">>
    ELSE <<"q", "u", "i", "l", "t">>

\* LoaderVersion::name.
loader_name(loader) ==
    IF loader = "Fabric" THEN <<"f", "a", "b", "r", "i", "c", "-", "l", "o", "a", "d", "e", "r">>
    ELSE IF loader = "Forge" THEN <<"f", "o", "r", "g", "e">>
    ELSE <<"q", "u", "i", "l", "t", "-", "l", "o", "a", "d", "e", "r">>

\* install_client's profile_name.
client_profile_name ==
    <<"q", "u", "i", "l", "t", "-", "l", "o", "a", "d", "e", "r", "-">> \o LoaderVersionName \o <<"-">> \o MinecraftVersion

\* install_client's profile_dir, jar_path and json_path.
profile_dir ==
    PathJoin(PathJoin(InstallDir, <<"v", "e", "r", "s", "i", "o", "n", "s">>), client_profile_name)

client_jar_path == PathJoin(profile_dir, client_profile_name \o <<".", "j", "a", "r">>)

client_json_path == PathJoin(profile_dir, client_profile_name \o <<".", "j", "s", "o", "n">>)

\* install_server's libraries_dir and jar_path.
libraries_dir == PathJoin(InstallDir, <<"l", "i", "b", "r", "a", "r", "i", "e", "s">>)

server_jar_path == PathJoin(InstallDir, <<"q", "u", "i", "l", "t", "-", "s", "e", "r", "v", "e", "r", "-", "l", "a", "u", "n", "c", "h", ".", "j", "a", "r">>)

\* generate_profile's profiles_json.
profiles_json == PathJoin(InstallDir, <<"l", "a", "u", "n", "c", "h", "e", "r", "_", "p", "r", "o", "f", "i", "l", "e", "s", ".", "j", "s", "o", "n">>)

\* The directories create_dir_all(p) makes sure exist: p and its ancestors
\* (the root aside).
DirChain(p) ==
    {SubSeq(p, 1, k) : k \in {j \in 1..Len(p) :
        p[j] # "/" /\ (j = Len(p) \/ p[j + 1] = "/")}}

\* Whether path p lies inside directory d.
Under(p, d) == starts_with(p, d \o <<"/">>)

(***************************************************************************)
(* State                                                                   *)
(***************************************************************************)

VARIABLES
    req,            \* the install request: loader, side, generate
    pc,             \* where the install task is suspended
    result,         \* "none", "ok", "err" or "panic"
    error,          \* the kind of the error returned
    invoked,        \* the installers that have been called
    remote,         \* the libraries of the profile document the server holds
    libraries,      \* profile.libraries after the retain
    task,           \* the download futures, one per library
    collected,      \* the Vec try_collect has gathered so far
    batch,          \* the batch download: "none", "running", "ok", "err"
    library_paths,  \* the paths the batch returned
    detached,       \* blocking file operations of dropped futures
    http,           \* the requests issued: who issued them and the URL
    dirs,           \* the directories that exist
    files,          \* the files that exist, with their content
    fsLog,          \* the file operations carried out: who, what, where
    profiles,       \* generate_profile's decoded registry
    fs0,            \* the file system when the install was called
    peer,           \* a generate_profile run of another install on the same
                    \* install directory: its position and decoded registry
    regLog,         \* the reads and writes of the registry file, in order
    gui             \* the window: gui::State, the messages not yet handled
                    \* and the loaders::install calls it has started

vars ==
    <<req, pc, result, error, invoked, remote, libraries, task, collected,
      batch, library_paths, detached, http, dirs, files, fsLog, profiles, fs0,
      peer, regLog, gui>>

Loaders == {"Fabric", "Forge", "Quilt"}

Sides == {"Client", "Server"}

\* buffer_unordered(8).
BufferSize == 8

\* File contents.
EmptyFile == [kind |-> "empty"]

OldFile == [kind |-> "old"]

BodyOf(url) == [kind |-> "body", url |-> url]

\* The states of a download future that is in the pool (taken from the
\* stream and not finished): not polled yet, waiting for create_dir_all, for
\* the response, for the write.
InFlightStates == {"queued", "mkdir", "get", "write"}

InFlight(t) == {i \in DOMAIN t : t[i].st \in InFlightStates}

\* Path::exists.
exists(p) == p \in dirs \/ p \in DOMAIN files

\* The local path of library i of the profile (it has three parts).
LibPath(i) == library_path(libraries_dir, split_artifact(libraries[i]).path)

LibUrl(i) == maven_url(split_artifact(libraries[i]).path)

\* The URLs of the profile documents.
client_json_url ==
    <<"h", "t", "t", "p", "s", ":", "/", "/", "m", "e", "t", "a", ".", "q", "u", "i", "l", "t", "m", "c", ".", "o", "r", "g", "/", "v", "3", "/", "v", "e", "r", "s", "i", "o", "n", "s", "/", "l", "o", "a", "d", "e", "r", "/">> \o MinecraftVersion
    \o <<"/">> \o LoaderVersionName \o <<"/", "p", "r", "o", "f", "i", "l", "e", "/", "j", "s", "o", "n">>

server_json_url ==
    <<"h", "t", "t", "p", "s", ":", "/", "/", "m", "e", "t", "a", ".", "q", "u", "i", "l", "t", "m", "c", ".", "o", "r", "g", "/", "v", "3", "/", "v", "e", "r", "s", "i", "o", "n", "s", "/", "l", "o", "a", "d", "e", "r", "/">> \o MinecraftVersion
    \o <<"/">> \o LoaderVersionName \o <<"/", "s", "e", "r", "v", "e", "r", "/", "j", "s", "o", "n">>

\* Who issues a request or a file operation: the install task itself, the
\* download future of library i, or a blocking thread left by a dropped one.
Installer == <<"install", 0>>

Download(i) == <<"download", i>>

Background == <<"detached", 0>>

\* The install returns.
Finish(r, e) == pc' = "done" /\ result' = r /\ error' = e

Pool == <<libraries, task, collected, batch, library_paths, detached>>

Disk == <<dirs, files, fsLog>>

(***************************************************************************)
(* loaders::install (loaders.rs) and quilt::install                        *)
(***************************************************************************)

\* A facade whose Quilt installer takes the client path for the server side
\* and the server path for the client side.
Install_swapped ==
    /\ pc = "start"
    /\ UNCHANGED <<req, gui, peer, regLog, remote, Pool, Disk, profiles, fs0>>
    /\ IF ~exists(InstallDir)
       THEN Finish("err", "validation") /\ UNCHANGED <<invoked, http>>
       ELSE IF req.loader = "Fabric"
       THEN /\ invoked' = invoked \cup {"fabric::install"}
            /\ Finish("ok", "none")
            /\ UNCHANGED http
       ELSE IF req.loader = "Forge"
       THEN /\ invoked' = invoked \cup {"forge::install"}
            /\ Finish("ok", "none")
            /\ UNCHANGED http
       ELSE IF req.side = "Server"
       THEN /\ invoked' = invoked \cup {"quilt::install", "install_client"}
            /\ pc' = IF exists(profile_dir) THEN "c_remove" ELSE "c_mkdir"
            /\ UNCHANGED <<result, error, http>>
       ELSE /\ invoked' = invoked \cup {"quilt::install", "install_server"}
            /\ http' = http \cup {[by |-> Installer, url |-> server_json_url]}
            /\ pc' = "s_get"
            /\ UNCHANGED <<result, error>>

\* An install that does not look at the destination.
destination_exists_unchecked == TRUE

\* The guard of the facade: dir.exists().
destination_exists == exists(InstallDir)

Install ==
    /\ pc = "start"
    /\ UNCHANGED <<req, gui, peer, regLog, remote, Pool, Disk, profiles, fs0>>
    /\ IF ~destination_exists
       THEN Finish("err", "validation") /\ UNCHANGED <<invoked, http>>
       ELSE IF req.loader = "Fabric"
       THEN /\ invoked' = invoked \cup {"fabric::install"}
            /\ Finish("ok", "none")
            /\ UNCHANGED http
       ELSE IF req.loader = "Forge"
       THEN /\ invoked' = invoked \cup {"forge::install"}
            /\ Finish("ok", "none")
            /\ UNCHANGED http
       ELSE IF req.side = "Client"
       THEN /\ invoked' = invoked \cup {"quilt::install", "install_client"}
            /\ pc' = IF exists(profile_dir) THEN "c_remove" ELSE "c_mkdir"
            /\ UNCHANGED <<result, error, http>>
       ELSE /\ invoked' = invoked \cup {"quilt::install", "install_server"}
            /\ http' = http \cup {[by |-> Installer, url |-> server_json_url]}
            /\ pc' = "s_get"
            /\ UNCHANGED <<result, error>>

(***************************************************************************)
(* install_client (quilt.rs, lines 112-167), one action per await          *)
(***************************************************************************)

\* A remove_dir_all that removes nothing.
RemoveTree_nothing(set, d) == set

\* std::fs::remove_dir_all(d) on the directory and file sets.
RemoveTree(set, d) == {p \in set : p # d /\ ~Under(p, d)}

\* The file map with path p holding content c.
WriteFile(p, c) == (p :> c) @@ files

Log(by, op, p) == fsLog \cup {[by |-> by, op |-> op, path |-> p]}

\* The serialized client profile: the document with its libraries filtered.
ProfileJson(libs) == [kind |-> "profile", libraries |-> libs]

\* tokio::fs::remove_dir_all(&profile_dir).await?
ClientRemove ==
    /\ pc = "c_remove"
    /\ UNCHANGED <<req, gui, peer, regLog, invoked, remote, Pool, http, profiles, fs0>>
    /\ \E ok \in BOOLEAN :
        IF ok
        THEN /\ dirs' = RemoveTree(dirs, profile_dir)
             /\ files' = [p \in RemoveTree(DOMAIN files, profile_dir) |-> files[p]]
             /\ fsLog' = Log(Installer, "remove_dir_all", profile_dir)
             /\ pc' = "c_mkdir"
             /\ UNCHANGED <<result, error>>
        ELSE Finish("err", "io") /\ UNCHANGED Disk

\* tokio::fs::create_dir_all(&profile_dir).await?
ClientMkdir ==
    /\ pc = "c_mkdir"
    /\ UNCHANGED <<req, gui, peer, regLog, invoked, remote, Pool, http, files, profiles, fs0>>
    /\ \E ok \in BOOLEAN :
        IF ok
        THEN /\ dirs' = dirs \cup DirChain(profile_dir)
             /\ fsLog' = Log(Installer, "create_dir_all", profile_dir)
             /\ pc' = "c_jar"
             /\ UNCHANGED <<result, error>>
        ELSE Finish("err", "io") /\ UNCHANGED <<dirs, fsLog>>

\* File::create(jar_path).await?: the empty jar.
ClientCreateJar ==
    /\ pc = "c_jar"
    /\ UNCHANGED <<req, gui, peer, regLog, invoked, remote, Pool, http, dirs, profiles, fs0>>
    /\ \E ok \in BOOLEAN :
        IF ok
        THEN /\ files' = WriteFile(client_jar_path, EmptyFile)
             /\ fsLog' = Log(Installer, "create", client_jar_path)
             /\ pc' = "c_json"
             /\ UNCHANGED <<result, error>>
        ELSE Finish("err", "io") /\ UNCHANGED <<files, fsLog>>

\* File::create(json_path).await?, then the request for the profile.
ClientCreateJson ==
    /\ pc = "c_json"
    /\ UNCHANGED <<req, gui, peer, regLog, invoked, remote, Pool, dirs, profiles, fs0>>
    /\ \E ok \in BOOLEAN :
        IF ok
        THEN /\ files' = WriteFile(client_json_path, EmptyFile)
             /\ fsLog' = Log(Installer, "create", client_json_path)
             /\ http' = http \cup {[by |-> Installer, url |-> client_json_url]}
             /\ pc' = "c_get"
             /\ UNCHANGED <<result, error>>
        ELSE Finish("err", "io") /\ UNCHANGED <<files, fsLog, http>>

\* An install_client that goes on to generate_profile without copying the
\* document into the json file.
ClientGet_skips_copy ==
    /\ pc = "c_get"
    /\ UNCHANGED <<req, gui, peer, regLog, remote, task, collected, batch, library_paths,
                   detached, http, Disk, profiles, fs0>>
    /\ \E outcome \in {"ok", "network", "decode"} :
        IF outcome = "ok"
        THEN /\ libraries' = retain(remote)
             /\ IF req.generate
                THEN /\ invoked' = invoked \cup {"generate_profile"}
                     /\ pc' = "g_read"
                     /\ UNCHANGED <<result, error>>
                ELSE Finish("ok", "none") /\ UNCHANGED invoked
        ELSE Finish("err", outcome) /\ UNCHANGED <<libraries, invoked>>

\* reqwest::get(..).await?.json().await?, then the retain.
ClientGet ==
    /\ pc = "c_get"
    /\ UNCHANGED <<req, gui, peer, regLog, invoked, remote, task, collected, batch, library_paths,
                   detached, http, Disk, profiles, fs0>>
    /\ \E outcome \in {"ok", "network", "decode"} :
        IF outcome = "ok"
        THEN /\ libraries' = retain(remote)
             /\ pc' = "c_copy"
             /\ UNCHANGED <<result, error>>
        ELSE Finish("err", outcome) /\ UNCHANGED libraries

\* An install_client that calls generate_profile whatever the flag.
ClientCopy_always_generates ==
    /\ pc = "c_copy"
    /\ UNCHANGED <<req, gui, peer, regLog, remote, Pool, http, dirs, profiles, fs0>>
    /\ \E ok \in BOOLEAN :
        IF ok
        THEN /\ files' = WriteFile(client_json_path, ProfileJson(libraries))
             /\ fsLog' = Log(Installer, "write", client_json_path)
             /\ invoked' = invoked \cup {"generate_profile"}
             /\ pc' = "g_read"
             /\ UNCHANGED <<result, error>>
        ELSE Finish("err", "io") /\ UNCHANGED <<files, fsLog, invoked>>

\* tokio::io::copy(&mut response.as_bytes(), &mut file).await?, then the
\* call of generate_profile when install.generate.
ClientCopy ==
    /\ pc = "c_copy"
    /\ UNCHANGED <<req, gui, peer, regLog, remote, Pool, http, dirs, profiles, fs0>>
    /\ \E ok \in BOOLEAN :
        IF ok
        THEN /\ files' = WriteFile(client_json_path, ProfileJson(libraries))
             /\ fsLog' = Log(Installer, "write", client_json_path)
             /\ IF req.generate
                THEN /\ invoked' = invoked \cup {"generate_profile"}
                     /\ pc' = "g_read"
                     /\ UNCHANGED <<result, error>>
                ELSE Finish("ok", "none") /\ UNCHANGED invoked
        ELSE Finish("err", "io") /\ UNCHANGED <<files, fsLog, invoked>>

(***************************************************************************)
(* utils::generate_profile (utils.rs, lines 30-57)                         *)
(***************************************************************************)

\* generate_profile's profile_name for the Quilt loader version.
registry_profile_name ==
    loader_name("Quilt") \o <<"-">> \o LoaderVersionName \o <<"-">>
    \o MinecraftVersion

\* The descriptor inserted; "now" stands for Utc::now().
new_profile ==
    [name |-> loader_name("Quilt") \o <<"-">> \o MinecraftVersion,
     type |-> "custom",
     created |-> "now",
     lastVersionId |-> registry_profile_name,
     icon |-> "QUILT_ICON"]

\* serde_json::from_str::<LaunchProfiles>: the three fields of the struct;
\* any other key of the file is ignored.
decodes(content) == content.kind = "registry"

decode_registry(content) ==
    [profiles |-> content.profiles,
     settings |-> content.settings,
     version |-> content.version]

\* An insert that forgets the entries the map held.
insert_alone(map, key, value) == (key :> value)

\* HashMap::insert.
insert(map, key, value) == (key :> value) @@ map

\* serde_json::to_string_pretty(&profiles).
encode_registry(p) ==
    [kind |-> "registry", profiles |-> p.profiles, settings |-> p.settings,
     version |-> p.version, extra |-> FALSE]

\* profiles.profiles.insert(profile_name, new_profile) on the decoded
\* registry.
patch(p, key, value) == [p EXCEPT !.profiles = insert(p.profiles, key, value)]

\* The log of the registry file with one operation more.
RegLog(by, op, content) ==
    Append(regLog, [by |-> by, op |-> op, content |-> content])

\* A generate_profile that starts from an empty registry when the file is
\* absent or does not decode.
GenerateRead_bootstrap ==
    /\ pc = "g_read"
    /\ UNCHANGED <<req, gui, peer, regLog, invoked, remote, Pool, http, Disk, fs0>>
    /\ profiles' =
          LET p == IF profiles_json \in DOMAIN files /\ decodes(files[profiles_json])
                   THEN decode_registry(files[profiles_json])
                   ELSE [profiles |-> <<>>, settings |-> "none", version |-> 0]
          IN  [p EXCEPT !.profiles =
                  insert(p.profiles, registry_profile_name, new_profile)]
    /\ pc' = "g_write"
    /\ UNCHANGED <<result, error>>

\* read_to_string(&profiles_json).await?, from_str, insert.
GenerateRead ==
    /\ pc = "g_read"
    /\ UNCHANGED <<req, gui, peer, invoked, remote, Pool, http, Disk, fs0>>
    /\ \E ok \in BOOLEAN :
        IF ~ok \/ profiles_json \notin DOMAIN files
        THEN Finish("err", "io") /\ UNCHANGED <<profiles, regLog>>
        ELSE /\ regLog' = RegLog(Installer, "read", files[profiles_json])
             /\ IF ~decodes(files[profiles_json])
                THEN Finish("err", "decode") /\ UNCHANGED profiles
                ELSE /\ profiles' =
                          patch(decode_registry(files[profiles_json]),
                                registry_profile_name, new_profile)
                     /\ pc' = "g_write"
                     /\ UNCHANGED <<result, error>>

\* A write that patches the registry as the file holds it at the time of
\* the write instead of the one read before.
GenerateWrite_merging ==
    /\ pc = "g_write"
    /\ UNCHANGED <<req, gui, peer, invoked, remote, Pool, http, dirs, profiles, fs0>>
    /\ \E ok \in BOOLEAN :
        IF ok
        THEN LET now == encode_registry(
                            patch(decode_registry(files[profiles_json]),
                                  registry_profile_name, new_profile))
             IN  /\ files' = WriteFile(profiles_json, now)
                 /\ fsLog' = Log(Installer, "write", profiles_json)
                 /\ regLog' = RegLog(Installer, "write", now)
                 /\ Finish("ok", "none")
        ELSE Finish("err", "io") /\ UNCHANGED <<files, fsLog, regLog>>

\* tokio::fs::write(&profiles_json, &new_profiles).await?
GenerateWrite ==
    /\ pc = "g_write"
    /\ UNCHANGED <<req, gui, peer, invoked, remote, Pool, http, dirs, profiles, fs0>>
    /\ \E ok \in BOOLEAN :
        IF ok
        THEN /\ files' = WriteFile(profiles_json, encode_registry(profiles))
             /\ fsLog' = Log(Installer, "write", profiles_json)
             /\ regLog' = RegLog(Installer, "write", encode_registry(profiles))
             /\ Finish("ok", "none")
        ELSE Finish("err", "io") /\ UNCHANGED <<files, fsLog, regLog>>

\* The generate_profile run of the other install: who it is, the Minecraft
\* version it installs for, its profile_name and its descriptor.
PeerRun == <<"install", 1>>

PeerMinecraftVersion == <<"1", ".", "1", "8", ".", "2">>

peer_profile_name ==
    loader_name("Quilt") \o <<"-">> \o LoaderVersionName \o <<"-">>
    \o PeerMinecraftVersion

peer_new_profile ==
    [name |-> loader_name("Quilt") \o <<"-">> \o PeerMinecraftVersion,
     type |-> "custom",
     created |-> "now",
     lastVersionId |-> peer_profile_name,
     icon |-> "QUILT_ICON"]

\* No other run.
NoPeer == [pc |-> "none"]

\* No window: the install was called directly.
NoGui == [aborted |-> FALSE]

\* The other run's read_to_string(&profiles_json).await?, from_str, insert.
PeerRead ==
    /\ peer.pc = "g_read"
    /\ UNCHANGED <<req, gui, pc, result, error, invoked, remote, Pool, http, Disk,
                   profiles, fs0>>
    /\ \E ok \in BOOLEAN :
        IF ~ok \/ profiles_json \notin DOMAIN files
        THEN /\ peer' = [pc |-> "done", result |-> "err", error |-> "io"]
             /\ UNCHANGED regLog
        ELSE /\ regLog' = RegLog(PeerRun, "read", files[profiles_json])
             /\ IF ~decodes(files[profiles_json])
                THEN peer' = [pc |-> "done", result |-> "err",
                              error |-> "decode"]
                ELSE peer' =
                        [pc |-> "g_write",
                         profiles |->
                            patch(decode_registry(files[profiles_json]),
                                  peer_profile_name, peer_new_profile)]

\* The other run's tokio::fs::write(&profiles_json, &new_profiles).await?
PeerWrite ==
    /\ peer.pc = "g_write"
    /\ UNCHANGED <<req, gui, pc, result, error, invoked, remote, Pool, http, dirs,
                   fsLog, profiles, fs0>>
    /\ \E ok \in BOOLEAN :
        IF ok
        THEN /\ files' = WriteFile(profiles_json,
                                   encode_registry(peer.profiles))
             /\ regLog' = RegLog(PeerRun, "write",
                                 encode_registry(peer.profiles))
             /\ peer' = [pc |-> "done", result |-> "ok", error |-> "none"]
        ELSE /\ peer' = [pc |-> "done", result |-> "err", error |-> "io"]
             /\ UNCHANGED <<files, regLog>>

(***************************************************************************)
(* install_server (quilt.rs, lines 170-216) and download_library           *)
(***************************************************************************)

\* reqwest::get(..).await?.json().await?, the retain, and the spawn of the
\* batch download.
ServerGet ==
    /\ pc = "s_get"
    /\ UNCHANGED <<req, gui, peer, regLog, invoked, remote, collected, library_paths, detached,
                   http, Disk, profiles, fs0>>
    /\ \E outcome \in {"ok", "network", "decode"} :
        IF outcome = "ok"
        THEN /\ libraries' = retain(remote)
             /\ task' = [i \in 1..Len(retain(remote)) |->
                            [st |-> "pending", existed |-> FALSE]]
             /\ batch' = "running"
             /\ pc' = "pool"
             /\ UNCHANGED <<result, error>>
        ELSE Finish("err", outcome) /\ UNCHANGED <<libraries, task, batch>>

\* A pool that takes one future more than its bound.
slot_free_inclusive(t) == Cardinality(InFlight(t)) <= BufferSize

\* buffer_unordered pulls the next future only while fewer than its bound
\* are in progress.
slot_free(t) == Cardinality(InFlight(t)) < BufferSize

\* poll_next fills the pool before it polls any future: a future is polled
\* only when the pool is full or the stream has no library left.
pool_filled(t) == ~(slot_free(t) /\ \E i \in DOMAIN t : t[i].st = "pending")

\* A download that never looks at the cache.
cache_hit_never(path) == FALSE

\* download_library's test of the cache: path.exists().
cache_hit(path) == exists(path)

\* The blocking file operations that futures dropped with the stream leave
\* running: a create_dir_all or a write that has been handed to the pool of
\* blocking threads is carried out whether or not its future lives.
Leftover(t, failed) ==
    {[op |-> "create_dir_all", path |-> PathParent(LibPath(j)).path,
      content |-> EmptyFile] : j \in {k \in DOMAIN t \ {failed} : t[k].st = "mkdir"}}
    \cup
    {[op |-> "write", path |-> LibPath(j), content |-> BodyOf(LibUrl(j))] :
        j \in {k \in DOMAIN t \ {failed} : t[k].st = "write"}}

\* A collect that puts the error aside and lets the stream go on.
BatchFail_goes_on(i, kind, existed) ==
    /\ task' = [task EXCEPT ![i] = [st |-> "err", existed |-> existed]]
    /\ UNCHANGED <<detached, batch, pc, result, error>>

\* try_collect meets the first Err: it returns it and drops the stream with
\* every future still in it; install_server returns the error.
BatchFail(i, kind, existed) ==
    /\ task' = [j \in DOMAIN task |->
                  IF j = i THEN [st |-> "err", existed |-> existed]
                  ELSE IF task[j].st \in InFlightStates
                  THEN [task[j] EXCEPT !.st = "dropped"]
                  ELSE task[j]]
    /\ detached' = detached \cup Leftover(task, i)
    /\ batch' = "err"
    /\ Finish("err", kind)

\* buffer_unordered's poll_next takes library i, the next of the stream, and
\* pushes its future into the FuturesUnordered.
PoolFill(i) ==
    /\ pc = "pool"
    /\ task[i].st = "pending"
    /\ \A j \in 1..(i - 1) : task[j].st # "pending"
    /\ slot_free(task)
    /\ task' = [task EXCEPT ![i].st = "queued"]
    /\ UNCHANGED <<req, gui, peer, regLog, pc, result, error, invoked, remote, libraries,
                   collected, batch, library_paths, detached, http, Disk,
                   profiles, fs0>>

\* The first poll of the future of library i (FuturesUnordered polls new
\* futures in the order they were pushed): split_artifact, the cache test,
\* and the call of create_dir_all.
DownloadStart(i) ==
    /\ pc = "pool"
    /\ task[i].st = "queued"
    /\ pool_filled(task)
    /\ \A j \in 1..(i - 1) : task[j].st # "queued"
    /\ UNCHANGED <<req, gui, peer, regLog, invoked, remote, libraries, library_paths, http, Disk,
                   profiles, fs0>>
    /\ IF ~split_artifact(libraries[i]).some
       THEN BatchFail(i, "coordinate", FALSE) /\ UNCHANGED collected
       ELSE IF cache_hit(LibPath(i))
       THEN /\ task' = [task EXCEPT ![i] =
                           [st |-> "ok", existed |-> exists(LibPath(i))]]
            /\ collected' = Append(collected, LibPath(i))
            /\ UNCHANGED <<batch, detached, pc, result, error>>
       ELSE /\ task' = [task EXCEPT ![i] =
                           [st |-> "mkdir", existed |-> exists(LibPath(i))]]
            /\ UNCHANGED <<collected, batch, detached, pc, result, error>>

\* create_dir_all(parent).await?, then client.get(maven_url).send().
DownloadMkdir(i) ==
    /\ pc = "pool"
    /\ task[i].st = "mkdir"
    /\ pool_filled(task)
    /\ UNCHANGED <<req, gui, peer, regLog, invoked, remote, libraries, library_paths, collected,
                   files, profiles, fs0>>
    /\ \E ok \in BOOLEAN :
        IF ok
        THEN /\ dirs' = dirs \cup DirChain(PathParent(LibPath(i)).path)
             /\ fsLog' = Log(Download(i), "create_dir_all", PathParent(LibPath(i)).path)
             /\ http' = http \cup {[by |-> Download(i), url |-> LibUrl(i)]}
             /\ task' = [task EXCEPT ![i].st = "get"]
             /\ UNCHANGED <<batch, detached, pc, result, error>>
        ELSE /\ BatchFail(i, "io", task[i].existed)
             /\ UNCHANGED <<dirs, fsLog, http>>

\* A download that, when its response fails, removes the library files the
\* batch has written before it returns the error.
DownloadResponse_rollback(i) ==
    /\ pc = "pool"
    /\ task[i].st = "get"
    /\ pool_filled(task)
    /\ UNCHANGED <<req, gui, peer, regLog, invoked, remote, libraries, library_paths, collected,
                   http, dirs, fsLog, profiles, fs0>>
    /\ \E outcome \in {"ok", "network", "status"} :
        IF outcome = "ok"
        THEN /\ task' = [task EXCEPT ![i].st = "write"]
             /\ UNCHANGED <<batch, detached, pc, result, error, files>>
        ELSE /\ BatchFail(i, outcome, task[i].existed)
             /\ files' = [p \in {q \in DOMAIN files :
                                   \A j \in DOMAIN task :
                                      ~(task[j].st = "ok" /\ ~task[j].existed
                                          /\ LibPath(j) = q)} |-> files[p]]

\* A download that writes what the server answered before it looks at the
\* status.
DownloadResponse_writes_first(i) ==
    /\ pc = "pool"
    /\ task[i].st = "get"
    /\ pool_filled(task)
    /\ UNCHANGED <<req, gui, peer, regLog, invoked, remote, libraries, library_paths, collected,
                   http, dirs, profiles, fs0>>
    /\ \E outcome \in {"ok", "network", "status"} :
        IF outcome = "ok"
        THEN /\ task' = [task EXCEPT ![i].st = "write"]
             /\ UNCHANGED <<batch, detached, pc, result, error, files, fsLog>>
        ELSE IF outcome = "status"
        THEN /\ files' = WriteFile(LibPath(i), BodyOf(LibUrl(i)))
             /\ fsLog' = Log(Download(i), "write", LibPath(i))
             /\ BatchFail(i, outcome, task[i].existed)
        ELSE /\ BatchFail(i, outcome, task[i].existed)
             /\ UNCHANGED <<files, fsLog>>

\* The response: a transport error, a status that is not a success, or a
\* success with its body, which is then handed to tokio::fs::write.
DownloadResponse(i) ==
    /\ pc = "pool"
    /\ task[i].st = "get"
    /\ pool_filled(task)
    /\ UNCHANGED <<req, gui, peer, regLog, invoked, remote, libraries, library_paths, collected,
                   http, Disk, profiles, fs0>>
    /\ \E outcome \in {"ok", "network", "status"} :
        IF outcome = "ok"
        THEN /\ task' = [task EXCEPT ![i].st = "write"]
             /\ UNCHANGED <<batch, detached, pc, result, error>>
        ELSE BatchFail(i, outcome, task[i].existed)

\* tokio::fs::write(&path, &bytes).await?; Ok(path).
DownloadWrite(i) ==
    /\ pc = "pool"
    /\ task[i].st = "write"
    /\ pool_filled(task)
    /\ UNCHANGED <<req, gui, peer, regLog, invoked, remote, libraries, library_paths, http, dirs,
                   profiles, fs0>>
    /\ \E ok \in BOOLEAN :
        IF ok
        THEN /\ files' = WriteFile(LibPath(i), BodyOf(LibUrl(i)))
             /\ fsLog' = Log(Download(i), "write", LibPath(i))
             /\ task' = [task EXCEPT ![i].st = "ok"]
             /\ collected' = Append(collected, LibPath(i))
             /\ UNCHANGED <<batch, detached, pc, result, error>>
        ELSE /\ BatchFail(i, "io", task[i].existed)
             /\ UNCHANGED <<files, fsLog, collected>>

\* The stream is exhausted and no future is left: try_collect returns the
\* Vec and the spawned task ends.
PoolDone ==
    /\ pc = "pool"
    /\ \A i \in DOMAIN task : task[i].st = "ok"
    /\ library_paths' = collected
    /\ batch' = "ok"
    /\ pc' = "jar"
    /\ UNCHANGED <<req, gui, peer, regLog, result, error, invoked, remote, libraries, task,
                   collected, detached, http, Disk, profiles, fs0>>

\* A blocking file operation of a dropped future is carried out.
Detached ==
    /\ \E o \in detached :
        /\ detached' = detached \ {o}
        /\ fsLog' = Log(Background, o.op, o.path)
        /\ IF o.op = "write"
           THEN files' = WriteFile(o.path, o.content) /\ UNCHANGED dirs
           ELSE dirs' = dirs \cup DirChain(o.path) /\ UNCHANGED files
    /\ UNCHANGED <<req, gui, peer, regLog, pc, result, error, invoked, remote, libraries, task,
                   collected, batch, library_paths, http, profiles, fs0>>

\* create_launch_jar(&jar_path, &profile.launcher_main_class,
\* &library_paths).await?, with its tokio::fs::write of the archive.
CreateLaunchJar ==
    /\ pc = "jar"
    /\ UNCHANGED <<req, gui, peer, regLog, invoked, remote, Pool, http, dirs, profiles, fs0>>
    /\ LET r == create_launch_jar(server_jar_path, LauncherMainClass,
                                  library_paths)
       IN  IF r.outcome = "panic"
           THEN Finish("panic", "none") /\ UNCHANGED <<files, fsLog>>
           ELSE IF r.outcome = "err"
           THEN Finish("err", "path") /\ UNCHANGED <<files, fsLog>>
           ELSE \E ok \in BOOLEAN :
                IF ok
                THEN /\ files' = WriteFile(server_jar_path,
                            [kind |-> "zip", entry |-> r.entry, data |-> r.data])
                     /\ fsLog' = Log(Installer, "write", server_jar_path)
                     /\ Finish("ok", "none")
                ELSE Finish("err", "io") /\ UNCHANGED <<files, fsLog>>

(***************************************************************************)
(* Initial states and the specification of one install run                 *)
(***************************************************************************)

\* The longest library list of a profile document.
MaxLibs == 3

\* Library coordinates of the profile documents: the hashed mappings the
\* hack-fix drops, a library of the Quilt repository, one of the Fabric
\* repository, and a coordinate with two parts only.
LibHashed == <<"o", "r", "g", ".", "q", "u", "i", "l", "t", "m", "c", ":", "h", "a", "s", "h", "e", "d", ":", "1">>

LibQuilt == <<"o", "r", "g", ".", "q", "u", "i", "l", "t", "m", "c", ":", "q", "l", ":", "1">>

LibFabric == <<"n", "e", "t", ".", "f", ":", "i", "m", ":", "1">>

LibBad == <<"a", ":", "b">>

LibNames == {LibHashed, LibQuilt, LibFabric, LibBad}

SeqsUpTo(S, n) == UNION {[1..k -> S] : k \in 0..n}

\* A map with no entry.
EmptyMap == [p \in {} |-> EmptyFile]

\* A profile the launcher registry holds before the install.
OldProfile(id) ==
    [name |-> id, type |-> "custom", created |-> "earlier",
     lastVersionId |-> id, icon |-> "OLD_ICON"]

OtherProfileId == <<"v", "a", "n", "i", "l", "l", "a">>

\* A launcher_profiles.json that decodes, with the profiles ids.
Registry(ids) ==
    [kind |-> "registry", profiles |-> [id \in ids |-> OldProfile(id)],
     settings |-> "settings", version |-> 3, extra |-> TRUE]

\* What launcher_profiles.json may hold before the install; "absent" for no
\* file.
RegistryInits ==
    {[kind |-> "absent"], [kind |-> "garbage"], Registry({OtherProfileId}),
     Registry({OtherProfileId, registry_profile_name})}

\* The local paths of the libraries of a list that resolve and are kept.
CachePaths(libs) ==
    {library_path(libraries_dir, split_artifact(libs[i]).path) :
        i \in {j \in 1..Len(libs) :
                 retained(libs[j]) /\ split_artifact(libs[j]).some}}

\* A file left in the profile directory by an earlier install.
StrayFile == PathJoin(profile_dir, <<"o", "l", "d", ".", "t", "x", "t">>)

\* The file system of an install directory with the given registry file,
\* profile directory and cached libraries.
DiskWith(reg, pre, cached) ==
    [dirs |-> {InstallDir}
              \cup (IF pre THEN DirChain(profile_dir) ELSE {})
              \cup UNION {DirChain(PathParent(p).path) : p \in cached},
     files |-> [p \in (IF reg.kind = "absent" THEN {} ELSE {profiles_json})
                      \cup (IF pre THEN {StrayFile} ELSE {})
                      \cup cached |->
                   IF p = profiles_json THEN reg ELSE OldFile]]

\* A file system an earlier successful client install of the same profile,
\* given the same document, has left its jar and json in.
Installed(disk, libs) ==
    [dirs |-> disk.dirs \cup DirChain(profile_dir),
     files |-> (client_jar_path :> EmptyFile)
               @@ (client_json_path :> ProfileJson(retain(libs)))
               @@ disk.files]

\* The file systems an install may find: no install directory at all; for
\* a Quilt client install every registry and profile directory; otherwise
\* every subset of the libraries already downloaded.
InitDisks(r, libs) ==
    {[dirs |-> {}, files |-> EmptyMap]}
    \cup (IF r.loader = "Quilt" /\ r.side = "Client"
          THEN {DiskWith(reg, pre, {}) : reg \in RegistryInits, pre \in BOOLEAN}
               \cup {Installed(DiskWith(reg, pre, {}), libs) :
                        reg \in RegistryInits, pre \in BOOLEAN}
          ELSE {DiskWith(Registry({OtherProfileId}), FALSE, cached) :
                    cached \in SUBSET CachePaths(libs)})

InitInstall ==
    /\ pc = "start"
    /\ result = "none"
    /\ error = "none"
    /\ invoked = {}
    /\ libraries = <<>>
    /\ task = <<>>
    /\ collected = <<>>
    /\ batch = "none"
    /\ library_paths = <<>>
    /\ detached = {}
    /\ http = {}
    /\ fsLog = {}
    /\ profiles = [profiles |-> EmptyMap, settings |-> "none", version |-> 0]
    /\ regLog = <<>>

\* One install run, with no other run on the install directory and no
\* window.
InitRun == InitInstall /\ peer = NoPeer /\ gui = NoGui

Init ==
    /\ InitRun
    /\ req \in [loader : Loaders, side : Sides, generate : BOOLEAN]
    /\ remote \in SeqsUpTo(LibNames, MaxLibs)
    /\ fs0 \in InitDisks(req, remote)
    /\ dirs = fs0.dirs
    /\ files = fs0.files

Next ==
    \/ Install
    \/ ClientRemove
    \/ ClientMkdir
    \/ ClientCreateJar
    \/ ClientCreateJson
    \/ ClientGet
    \/ ClientCopy
    \/ GenerateRead
    \/ GenerateWrite
    \/ ServerGet
    \/ \E i \in DOMAIN task : PoolFill(i)
    \/ \E i \in DOMAIN task : DownloadStart(i)
    \/ \E i \in DOMAIN task : DownloadMkdir(i)
    \/ \E i \in DOMAIN task : DownloadResponse(i)
    \/ \E i \in DOMAIN task : DownloadWrite(i)
    \/ PoolDone
    \/ Detached
    \/ CreateLaunchJar

Spec == Init /\ [][Next]_vars

(***************************************************************************)
(* A client install whose generate_profile runs beside that of another     *)
(* install on the same install directory                                   *)
(***************************************************************************)

\* The longest profile of the install.
MaxRegistryLibs == 1

\* A Quilt client install with the generate flag, and the generate_profile
\* of an install for another Minecraft version about to read the registry.
\* Each read and each write of the file is one step.
InitRegistry ==
    /\ InitInstall
    /\ req = [loader |-> "Quilt", side |-> "Client", generate |-> TRUE]
    /\ remote \in SeqsUpTo(LibNames, MaxRegistryLibs)
    /\ fs0 \in {DiskWith(reg, pre, {}) : reg \in RegistryInits, pre \in BOOLEAN}
    /\ dirs = fs0.dirs
    /\ files = fs0.files
    /\ peer = [pc |-> "g_read"]
    /\ gui = NoGui

NextRegistry ==
    \/ Install
    \/ ClientRemove
    \/ ClientMkdir
    \/ ClientCreateJar
    \/ ClientCreateJson
    \/ ClientGet
    \/ ClientCopy
    \/ GenerateRead
    \/ GenerateWrite
    \/ PeerRead
    \/ PeerWrite

SpecRegistry == InitRegistry /\ [][NextRegistry]_vars

(***************************************************************************)
(* The window (gui.rs): State::update and the Install button of view       *)
(***************************************************************************)

\* How often the Install button is pressed at most.
MaxPresses == 2

\* Everything but the window.
Backend ==
    <<req, pc, result, error, invoked, remote, Pool, http, Disk, profiles,
      fs0, peer, regLog>>

\* Option<T>.
None == [some |-> FALSE]

Some(v) == [some |-> TRUE, value |-> v]

\* Loader::from(tab as u8) and Side::from(tab as u8): the variants in the
\* order of their declaration, the default for any other number.
LoaderFrom(tab) ==
    IF tab = 0 THEN "Fabric" ELSE IF tab = 1 THEN "Forge" ELSE "Quilt"

SideFrom(tab) == IF tab = 1 THEN "Server" ELSE "Client"

\* The loaders whose tab has pick lists.
Listed == {"Fabric", "Quilt"}

\* State::new: State::default() (Loader and Side have #[default] Quilt and
\* Client), no message to handle and no install started.
GuiNew ==
    [selected_loader |-> "Quilt",
     selected_side |-> "Client",
     minecraft |-> [l \in Listed |-> None],
     version |-> [l \in Listed |-> None],
     client_generate_profile |-> FALSE,
     server_generate_script |-> FALSE,
     install_running |-> FALSE,
     pending |-> [m \in {"Install", "Error", "InstallDone"} |-> 0],
     calls |-> <<>>,
     presses |-> 0,
     prevented |-> 0,
     aborted |-> FALSE]

\* The window is there and update has not panicked.
Alive == gui # NoGui /\ ~gui.aborted

\* Interaction::SelectLoader(tab) and Interaction::SelectSide(tab).
SelectLoader(tab) ==
    /\ Alive
    /\ gui' = [gui EXCEPT !.selected_loader = LoaderFrom(tab)]
    /\ UNCHANGED Backend

SelectSide(tab) ==
    /\ Alive
    /\ gui' = [gui EXCEPT !.selected_side = SideFrom(tab)]
    /\ UNCHANGED Backend

\* Interaction::Fabric / Interaction::Quilt from the pick lists of the
\* selected tab: SelectVersion of the loader and of Minecraft.
SelectVersion(l) ==
    /\ Alive
    /\ gui.selected_loader = l
    /\ gui' = [gui EXCEPT !.version[l] = Some(LoaderVersionName)]
    /\ UNCHANGED Backend

SelectMinecraft(l) ==
    /\ Alive
    /\ gui.selected_loader = l
    /\ gui' = [gui EXCEPT !.minecraft[l] = Some(MinecraftVersion)]
    /\ UNCHANGED Backend

\* Interaction::ClientGenerateProfile(enable) and
\* Interaction::ServerGenerateScript(enable), from the check box of the
\* selected side.
ClientGenerateProfile(enable) ==
    /\ Alive
    /\ gui.selected_side = "Client"
    /\ gui' = [gui EXCEPT !.client_generate_profile = enable]
    /\ UNCHANGED Backend

ServerGenerateScript(enable) ==
    /\ Alive
    /\ gui.selected_side = "Server"
    /\ gui' = [gui EXCEPT !.server_generate_script = enable]
    /\ UNCHANGED Backend

\* The Install button is pressed: view gives it Interaction::InstallPrevent
\* when install_running and Interaction::Install otherwise; update does
\* nothing for the first and returns Message::Install for the second.
PressInstall ==
    /\ Alive
    /\ gui.presses < MaxPresses
    /\ gui' = IF gui.install_running
              THEN [gui EXCEPT !.presses = @ + 1, !.prevented = @ + 1]
              ELSE [gui EXCEPT !.presses = @ + 1, !.pending["Install"] = @ + 1]
    /\ UNCHANGED Backend

\* forge::State::selected_minecraft and selected_version are todo!(): the
\* call panics.
forge_todo(l) == l = "Forge"

\* The arguments of loaders::install for the selection.
InstallCall(g) ==
    [loader |-> g.selected_loader,
     version |-> g.version[g.selected_loader].value,
     side |-> g.selected_side,
     dir |-> InstallDir,
     minecraft |-> g.minecraft[g.selected_loader].value,
     generate |-> IF g.selected_side = "Client"
                  THEN g.client_generate_profile
                  ELSE g.server_generate_script,
     st |-> "running"]

\* update(Message::Install).
UpdateInstall ==
    /\ Alive
    /\ gui.pending["Install"] > 0
    /\ UNCHANGED Backend
    /\ LET g == [gui EXCEPT !.pending["Install"] = @ - 1]
       IN  IF forge_todo(g.selected_loader)
           THEN gui' = [g EXCEPT !.aborted = TRUE]
           ELSE IF ~g.minecraft[g.selected_loader].some
                   \/ ~g.version[g.selected_loader].some
           THEN gui' = [g EXCEPT !.pending["Error"] = @ + 1]
           ELSE gui' = [g EXCEPT !.calls = Append(@, InstallCall(g))]

\* A loaders::install started by Command::perform returns, and its result
\* becomes Message::InstallDone.
InstallReturns(k) ==
    /\ gui # NoGui
    /\ k \in DOMAIN gui.calls
    /\ gui.calls[k].st = "running"
    /\ gui' = [gui EXCEPT !.calls[k].st = "returned",
                          !.pending["InstallDone"] = @ + 1]
    /\ UNCHANGED Backend

\* update(Message::InstallDone(_result)).
UpdateInstallDone ==
    /\ Alive
    /\ gui.pending["InstallDone"] > 0
    /\ gui' = [gui EXCEPT !.pending["InstallDone"] = @ - 1]
    /\ UNCHANGED Backend

\* update(Message::Error(err)): eprintln.
UpdateError ==
    /\ Alive
    /\ gui.pending["Error"] > 0
    /\ gui' = [gui EXCEPT !.pending["Error"] = @ - 1]
    /\ UNCHANGED Backend

\* The window after State::new, over an install directory that exists.
InitGui ==
    /\ InitInstall
    /\ req = [loader |-> "Quilt", side |-> "Client", generate |-> FALSE]
    /\ remote = <<>>
    /\ fs0 = DiskWith(Registry({OtherProfileId}), FALSE, {})
    /\ dirs = fs0.dirs
    /\ files = fs0.files
    /\ peer = NoPeer
    /\ gui = GuiNew

NextGui ==
    \/ \E tab \in 0..2 : SelectLoader(tab)
    \/ \E tab \in 0..1 : SelectSide(tab)
    \/ \E l \in Listed : SelectVersion(l)
    \/ \E l \in Listed : SelectMinecraft(l)
    \/ \E enable \in BOOLEAN : ClientGenerateProfile(enable)
    \/ \E enable \in BOOLEAN : ServerGenerateScript(enable)
    \/ PressInstall
    \/ UpdateInstall
    \/ \E k \in 1..MaxPresses : InstallReturns(k)
    \/ UpdateInstallDone
    \/ UpdateError

SpecGui == InitGui /\ [][NextGui]_vars

(***************************************************************************)
(* A server install of a profile with more libraries than the pool bound   *)
(***************************************************************************)

\* The number of libraries of the long profile, and how many of them at
\* most are not yet on disk.
PoolLibs == 9

MaxUncached == 2

\* Library k of the long profile.
PoolLib(k) == <<"o", "r", "g", ".", "q", "u", "i", "l", "t", "m", "c", ":">> \o <<Chr(96 + k)>> \o <<":", "1">>

\* A Quilt server install of a profile with PoolLibs libraries, of which
\* all but the first few are in the install directory already; the first
\* coordinate may lack its version.
InitPool ==
    /\ InitRun
    /\ req \in [loader : {"Quilt"}, side : {"Server"}, generate : BOOLEAN]
    /\ \E bad \in BOOLEAN :
        remote = [k \in 1..PoolLibs |-> IF bad /\ k = 1 THEN LibBad ELSE PoolLib(k)]
    /\ \E u \in 0..MaxUncached :
        fs0 = DiskWith(Registry({OtherProfileId}), FALSE,
                       CachePaths([k \in 1..(PoolLibs - u) |-> PoolLib(u + k)]))
    /\ dirs = fs0.dirs
    /\ files = fs0.files

NextPool ==
    \/ Install
    \/ ServerGet
    \/ \E i \in DOMAIN task : PoolFill(i)
    \/ \E i \in DOMAIN task : DownloadStart(i)
    \/ \E i \in DOMAIN task : DownloadMkdir(i)
    \/ \E i \in DOMAIN task : DownloadResponse(i)
    \/ \E i \in DOMAIN task : DownloadWrite(i)
    \/ PoolDone
    \/ Detached
    \/ CreateLaunchJar

SpecPool == InitPool /\ [][NextPool]_vars

(***************************************************************************)
(* create_launch_jar over class paths of every length                      *)
(***************************************************************************)

\* The longest group of a library coordinate of the family below.
MaxGroupLen == 125

\* The characters outside ASCII a coordinate may hold (two and three bytes
\* in UTF-8).
MultiByte == {"U+00E9", "U+20AC"}

\* The coordinate whose group has k characters, small letters but for
\* character c at position m (m = 0: letters only).
JarLib(k, m, c) ==
    [i \in 1..k |-> IF i = m THEN c ELSE Chr(97 + (i % 26))] \o <<":", "n", ":", "1">>

\* How far from the end of the group the character outside ASCII may be.
MbWindow == 3

\* Profiles with no library, with one library of the family, and with a
\* library of the Fabric repository before it.  The character outside
\* ASCII is among the last MbWindow of the group, so that over the group
\* lengths it takes every position of the class path.
JarShapes ==
    {km \in (1..MaxGroupLen) \X (0..MaxGroupLen) :
        km[2] = 0 \/ (km[1] - MbWindow < km[2] /\ km[2] <= km[1])}

JarLists ==
    {<<>>}
    \cup {pre \o <<JarLib(km[1], km[2], c)>> :
            pre \in {<<>>, <<LibFabric>>}, km \in JarShapes, c \in MultiByte}

\* A Quilt server install whose libraries are all in the install directory
\* already.
InitJar ==
    /\ InitRun
    /\ req \in [loader : {"Quilt"}, side : {"Server"}, generate : {FALSE}]
    /\ remote \in JarLists
    /\ fs0 = DiskWith(Registry({OtherProfileId}), FALSE, CachePaths(remote))
    /\ dirs = fs0.dirs
    /\ files = fs0.files

NextJar ==
    \/ Install
    \/ ServerGet
    \/ \E i \in DOMAIN task : PoolFill(i)
    \/ \E i \in DOMAIN task : DownloadStart(i)
    \/ PoolDone
    \/ CreateLaunchJar

SpecJar == InitJar /\ [][NextJar]_vars

(***************************************************************************)
(* The fetch of the profile document and the hack-fix, over more lists     *)
(***************************************************************************)

\* The longest library list of the documents fetched here.
MaxFilterLibs == 3

\* Two more coordinates: an artifact of org.quiltmc whose name only begins
\* with "hashed", and an artifact named hashed of another group.
LibHashedX == <<"o", "r", "g", ".", "q", "u", "i", "l", "t", "m", "c", ":", "h", "a", "s", "h", "e", "d", "x", ":", "1">>

LibOtherHashed == <<"x", ":", "h", "a", "s", "h", "e", "d", ":", "1">>

FilterNames == LibNames \cup {LibHashedX, LibOtherHashed}

\* A Quilt install, client or server, into an install directory that holds
\* a registry and nothing of an earlier install.
InitFetch ==
    /\ InitRun
    /\ req \in [loader : {"Quilt"}, side : Sides, generate : {FALSE}]
    /\ remote \in SeqsUpTo(FilterNames, MaxFilterLibs)
    /\ fs0 = DiskWith(Registry({OtherProfileId}), FALSE, {})
    /\ dirs = fs0.dirs
    /\ files = fs0.files

\* The install up to the decoded and filtered profile.
NextFetch ==
    \/ Install
    \/ ClientMkdir
    \/ ClientCreateJar
    \/ ClientCreateJson
    \/ ClientGet
    \/ ServerGet

SpecFetch == InitFetch /\ [][NextFetch]_vars

(***************************************************************************)
(* A server install over a family of coordinates                           *)
(***************************************************************************)

\* The longest library list of the profiles of this family.
MaxResolveLibs == 2

\* Coordinates of Quilt's own group, of its sub-groups, of groups and
\* artifacts that only begin like it, of other groups, with four parts,
\* with fewer than three, and with an empty group.
Coordinates ==
    {<<"a", ":", "n", ":", "1">>, <<"a", ".", "b", ".", "c", ":", "n", ":", "1">>, <<"o", "r", "g", ".", "q", "u", "i", "l", "t", "m", "c", ":", "n", ":", "1">>, <<"o", "r", "g", ".", "q", "u", "i", "l", "t", "m", "c", ".", "x", ":", "n", ":", "1">>,
     <<"o", "r", "g", ".", "q", "u", "i", "l", "t", "m", "c", "x", ":", "n", ":", "1">>, <<"o", "r", "g", ":", "q", "u", "i", "l", "t", "m", "c", ":", "1">>, <<"a", ":", "n", ":", "1", ":", "2">>, <<"a", ":", "n">>, <<"a">>,
     <<":", "n", ":", "1">>}

\* The install directory with a launch jar of an earlier install in it.
WithOldJar(disk) ==
    [disk EXCEPT !.files = (server_jar_path :> OldFile) @@ disk.files]

\* A Quilt server install whose libraries are all on disk or none of them,
\* with or without an earlier launch jar.
InitResolve ==
    /\ InitRun
    /\ req \in [loader : {"Quilt"}, side : {"Server"}, generate : {FALSE}]
    /\ remote \in SeqsUpTo(Coordinates, MaxResolveLibs)
    /\ \E cached \in {{}, CachePaths(remote)} :
       \E disk \in {DiskWith(Registry({OtherProfileId}), FALSE, cached)} :
          fs0 \in {disk, WithOldJar(disk)}
    /\ dirs = fs0.dirs
    /\ files = fs0.files

NextResolve ==
    \/ Install
    \/ ServerGet
    \/ \E i \in DOMAIN task : PoolFill(i)
    \/ \E i \in DOMAIN task : DownloadStart(i)
    \/ \E i \in DOMAIN task : DownloadMkdir(i)
    \/ \E i \in DOMAIN task : DownloadResponse(i)
    \/ \E i \in DOMAIN task : DownloadWrite(i)
    \/ PoolDone
    \/ Detached
    \/ CreateLaunchJar

SpecResolve == InitResolve /\ [][NextResolve]_vars

(***************************************************************************)
(* The batch download: order, cache, bound, fail-fast                      *)
(***************************************************************************)

\* C1: when the batch download of install_server succeeds, the returned
\* sequence of paths is in the order of the input libraries: path i is the
\* local path of library i, whatever the order of completion.
C1_InputOrder ==
    batch = "ok" =>
        /\ Len(library_paths) = Len(libraries)
        /\ \A i \in DOMAIN libraries : library_paths[i] = LibPath(i)

\* The requests and the file operations made for library i.
RequestsOf(i) == {r \in http : r.by = Download(i)}

WritesOf(i) == {e \in fsLog : e.by = Download(i)}

\* C2: for a library whose local path exists when download_library tests
\* it, no HTTP request is issued, no file or directory is written, and the
\* path is returned as a success.
C2_CacheHit ==
    \A i \in DOMAIN task :
        task[i].existed =>
            /\ task[i].st = "ok"
            /\ RequestsOf(i) = {}
            /\ WritesOf(i) = {}
            /\ \E k \in DOMAIN collected : collected[k] = LibPath(i)
            /\ LibPath(i) \in DOMAIN files
            /\ (batch = "ok" => \E k \in DOMAIN library_paths :
                                    library_paths[k] = LibPath(i))

\* A batch has returned with a library that was on disk, next to one that
\* was fetched.
C2_Witness ==
    /\ batch = "ok"
    /\ \E i \in DOMAIN task : task[i].existed
    /\ \E i \in DOMAIN task : ~task[i].existed /\ RequestsOf(i) # {}

\* C3: in every state of a server install at most 8 library downloads have
\* been started and have not finished, however many libraries the profile
\* has.
C3_AtMostEight == Cardinality(InFlight(task)) <= 8

\* Eight downloads are in progress, one of them waiting for the network,
\* while a library of the profile waits for a slot.
C3_Witness ==
    /\ Cardinality(InFlight(task)) = 8
    /\ \E i \in DOMAIN task : task[i].st = "pending"
    /\ \E i \in DOMAIN task : task[i].st = "get"

\* A download of the batch has failed.
FailedDownload == \E i \in DOMAIN task : task[i].st = "err"

\* No future of library i has run yet.
NotStarted(i) == task[i].st \in {"pending", "queued"}

\* C4: when a library download of a batch fails the batch returns that
\* failure: no list of paths is returned, no library that has not been
\* started is started afterwards, and the launch jar is not written in that
\* run.
C4_FailFast ==
    /\ [](FailedDownload =>
            /\ batch = "err"
            /\ pc = "done"
            /\ result = "err"
            /\ error \in {"coordinate", "io", "network", "status"}
            /\ library_paths = <<>>
            /\ {e \in fsLog : e.path = server_jar_path} = {}
            /\ server_jar_path \notin DOMAIN files)
    /\ [][FailedDownload' =>
            \A i \in DOMAIN task :
                NotStarted(i) => task'[i].st \in {"pending", "dropped", "err"}]_vars

\* A download has failed while a library of the profile had not been
\* taken from the stream and others were dropped with it.
C4_Witness ==
    /\ FailedDownload
    /\ \E i \in DOMAIN task : task[i].st = "pending"
    /\ \E i \in DOMAIN task : task[i].st = "dropped"

\* C5: install with a destination directory that does not exist returns an
\* error, issues no network request and creates, deletes and writes no file
\* or directory, for every loader, side and generate flag.
C5_NoDestination ==
    InstallDir \notin fs0.dirs =>
        /\ http = {}
        /\ fsLog = {}
        /\ dirs = fs0.dirs
        /\ files = fs0.files
        /\ invoked = {}
        /\ pc \in {"start", "done"}
        /\ (pc = "done" => result = "err" /\ error = "validation")

\* install has returned for a destination that does not exist.
C5_Witness == InstallDir \notin fs0.dirs /\ pc = "done" /\ result = "err"

(***************************************************************************)
(* The manifest of the launch jar                                          *)
(***************************************************************************)

\* The lines of a text, without their line feeds.
Lines(bytes) ==
    LET nl == {i \in 1..Len(bytes) : bytes[i] = 10}
        end(k) == CHOOSE i \in nl : Cardinality({j \in nl : j <= i}) = k
        start(k) == IF k = 1 THEN 1 ELSE end(k - 1) + 1
    IN  [k \in 1..Cardinality(nl) |-> SubSeq(bytes, start(k), end(k) - 1)]

\* create_launch_jar has returned or aborted, and not for a failed write of
\* the archive.
JarReturned == pc = "done" /\ batch = "ok" /\ error # "io"

\* The string "Class-Path: " + joined paths of the install.
ClassPathString ==
    <<"C", "l", "a", "s", "s", "-", "P", "a", "t", "h", ":", " ">>
    \o join([i \in DOMAIN library_paths |->
                DropComponents(library_paths[i], Len(Components(InstallDir)))],
            <<" ">>)

\* The physical lines of the Class-Path header in the archive written, none
\* when no archive was written.
ClassPathLines ==
    IF result = "ok" /\ server_jar_path \in DOMAIN files
    THEN LET all == Lines(files[server_jar_path].data)
         IN  SubSeq(all, 3, Len(all))
    ELSE <<>>

\* The continuation lines without their first byte.
Continued ==
    LET lines == ClassPathLines
    IN  [k \in 1..(Len(lines) - 1) |-> Tail(lines[k + 1])]

\* The lines joined after the line feeds and the leading space of every
\* continuation line are removed.
Unwrapped ==
    LET lines == ClassPathLines
    IN  IF lines = <<>> THEN <<>> ELSE lines[1] \o Flatten(Continued)

\* C6: for a class path string S of at least 72 characters the first
\* Class-Path line holds the first 72 characters of S, and every following
\* line is one space and then 1 to 71 bytes of the remainder, consecutively,
\* until the remainder is exhausted.
C6_Chunks ==
    (JarReturned /\ Len(ClassPathString) >= 72) =>
        LET lines == ClassPathLines
            S == ClassPathString
        IN  /\ result = "ok"
            /\ Len(lines) >= 1
            /\ lines[1] = Utf8(SubSeq(S, 1, 72))
            /\ \A k \in 2..Len(lines) :
                  Len(lines[k]) \in 2..72 /\ lines[k][1] = 32
            /\ Flatten(Continued) = Utf8(SubSeq(S, 73, Len(S)))

\* C7: for every library list whose class path string is shorter than 72
\* characters, the empty list among them, create_launch_jar completes and
\* the Class-Path header is the whole string on one line.
C7_ShortClassPath ==
    (JarReturned /\ Len(ClassPathString) < 72) =>
        /\ result = "ok"
        /\ ClassPathLines = <<Utf8(ClassPathString)>>

\* C8: for every class path string the emitted Class-Path lines, joined
\* without their line feeds and the leading space of the continuation
\* lines, are the string itself: no byte is lost, added or replaced.
C8_RoundTrip ==
    (JarReturned /\ result = "ok") => Unwrapped = Utf8(ClassPathString)

\* A character of the string takes more than one byte.
HasMultiByte(s) == \E i \in DOMAIN s : Ord[s[i]] > 127

\* The bytes are the encoding of whole characters, none of them the
\* replacement character.
WholeCharacters(bytes) ==
    LET text == from_utf8_lossy(bytes)
    IN  Utf8(text) = bytes /\ \A i \in DOMAIN text : text[i] # "U+FFFD"

\* C9: for a class path with multi-byte characters no boundary of the
\* wrapping, after the first 72 units or after a 71-byte chunk, falls inside
\* a character: assembly does not abort and every line is a sequence of
\* whole characters of the string.
C9_CharBoundaries ==
    (JarReturned /\ HasMultiByte(ClassPathString)
                 /\ Len(Utf8(ClassPathString)) >= 72) =>
        LET lines == ClassPathLines
        IN  /\ result = "ok"
            /\ \A k \in DOMAIN lines : WholeCharacters(lines[k])
            /\ Unwrapped = Utf8(ClassPathString)

(***************************************************************************)
(* The hack-fix of the profile's library list                              *)
(***************************************************************************)

\* The profile document has been fetched, decoded and filtered.
Filtered == pc \in {"c_copy", "pool"}

\* The ':'-separated fields of a coordinate.
Fields(name) == splitn(Len(name) + 1, name, ":")

\* The artifact name of the coordinate is not hashed.
NotNamedHashed(name) ==
    ~(Len(Fields(name)) >= 2 /\ Fields(name)[2] = <<"h", "a", "s", "h", "e", "d">>)

\* C10 as stated: the filtered list holds no coordinate whose artifact name
\* is hashed and every other coordinate of the input, as often and in the
\* same order.
C10_ByArtifactName == Filtered => libraries = SelectSeq(remote, NotNamedHashed)

\* The coordinate does not begin with org.quiltmc:hashed.
NotHashedPrefix(name) ==
    LET prefix == <<"o", "r", "g", ".", "q", "u", "i", "l", "t", "m", "c", ":", "h", "a", "s", "h", "e", "d">>
    IN  Len(name) < Len(prefix) \/ SubSeq(name, 1, Len(prefix)) # prefix

\* C10, amended: the filtered list holds no coordinate that begins with
\* org.quiltmc:hashed and every other coordinate of the input, as often and
\* in the same order.
C10_ByPrefix == Filtered => libraries = SelectSeq(remote, NotHashedPrefix)

\* A list was filtered in which a coordinate named hashed of another group
\* was kept, one that only begins with org.quiltmc:hashed was dropped, and
\* an unrelated coordinate was kept.
C10_Witness ==
    /\ Filtered
    /\ \E i \in DOMAIN libraries : libraries[i] = LibOtherHashed
    /\ \E i \in DOMAIN remote : remote[i] = LibHashedX
    /\ \E i \in DOMAIN libraries : libraries[i] = LibQuilt
    /\ Len(libraries) < Len(remote)

(***************************************************************************)
(* The launcher registry                                                   *)
(***************************************************************************)

\* generate_profile has returned Ok.
RegistryPatched == pc = "done" /\ result = "ok" /\ "generate_profile" \in invoked

\* C11: for a registry with N profile entries a successful generate_profile
\* yields N+1 entries when the computed profile id was absent and N when it
\* was present, that entry overwritten; every other entry, the settings and
\* the version are written back unchanged.
C11_RegistryPatch ==
    RegistryPatched =>
        LET old == fs0.files[profiles_json]
            new == files[profiles_json]
            id == registry_profile_name
            N == Cardinality(DOMAIN old.profiles)
        IN  /\ DOMAIN new.profiles = DOMAIN old.profiles \cup {id}
            /\ Cardinality(DOMAIN new.profiles)
                 = IF id \in DOMAIN old.profiles THEN N ELSE N + 1
            /\ new.profiles[id] = new_profile
            /\ \A k \in DOMAIN old.profiles \ {id} : new.profiles[k] = old.profiles[k]
            /\ new.settings = old.settings
            /\ new.version = old.version

\* A registry that held the computed id and another profile has been
\* patched.
C11_Witness ==
    /\ RegistryPatched
    /\ registry_profile_name \in DOMAIN fs0.files[profiles_json].profiles
    /\ OtherProfileId \in DOMAIN files[profiles_json].profiles
    /\ files[profiles_json] # fs0.files[profiles_json]

(***************************************************************************)
(* The dispatch of the facade and of quilt::install                        *)
(***************************************************************************)

\* The installer of a loader tag.
InstallerOf(loader) ==
    IF loader = "Fabric" THEN "fabric::install"
    ELSE IF loader = "Forge" THEN "forge::install"
    ELSE "quilt::install"

\* The versions directory of the install directory.
versions_dir == PathJoin(InstallDir, <<"v", "e", "r", "s", "i", "o", "n", "s">>)

\* Path p is directory d or below it.
Within(p, d) == p = d \/ Under(p, d)

\* The registry file is as the install found it.
RegistryUntouched ==
    /\ (profiles_json \in DOMAIN files) = (profiles_json \in DOMAIN fs0.files)
    /\ profiles_json \in DOMAIN files =>
          files[profiles_json] = fs0.files[profiles_json]
    /\ {e \in fsLog : e.path = profiles_json} = {}

\* C12: for an install request with an existing destination exactly one
\* loader installer is invoked, the one of the loader's tag; the Quilt
\* installer runs only the client path for side Client (no library
\* download, no launch jar) and only the server path for side Server (no
\* versions directory, registry untouched).
C12_Dispatch ==
    (InstallDir \in fs0.dirs /\ pc # "start") =>
        /\ invoked \cap {"fabric::install", "forge::install", "quilt::install"}
             = {InstallerOf(req.loader)}
        /\ req.loader # "Quilt" =>
              invoked = {InstallerOf(req.loader)}
        /\ (req.loader = "Quilt" /\ req.side = "Client") =>
              /\ "install_client" \in invoked
              /\ "install_server" \notin invoked
              /\ task = <<>> /\ batch = "none"
              /\ \A r \in http : r.url = client_json_url
              /\ \A e \in fsLog : ~Within(e.path, libraries_dir)
              /\ server_jar_path \notin DOMAIN files
        /\ (req.loader = "Quilt" /\ req.side = "Server") =>
              /\ "install_server" \in invoked
              /\ "install_client" \notin invoked
              /\ "generate_profile" \notin invoked
              /\ \A d \in dirs : ~Within(d, versions_dir)
              /\ \A p \in DOMAIN files : ~Within(p, versions_dir)
              /\ RegistryUntouched

\* A Quilt server install asked to generate a profile has written its
\* launch jar and returned.
C12_Witness ==
    /\ req.loader = "Quilt" /\ req.side = "Server" /\ req.generate
    /\ pc = "done" /\ result = "ok"
    /\ server_jar_path \in DOMAIN files

(***************************************************************************)
(* The artifact resolver                                                   *)
(***************************************************************************)

\* The coordinate has exactly three ':'-separated parts.
ThreeParts(c) == Len(Fields(c)) = 3

\* g with every "." replaced by "/", then /a/v/a-v.jar.
ExpectedPath(c) ==
    LET g == Fields(c)[1]
        a == Fields(c)[2]
        v == Fields(c)[3]
    IN  [i \in DOMAIN g |-> IF g[i] = "." THEN "/" ELSE g[i]]
        \o <<"/">> \o a \o <<"/">> \o v \o <<"/">> \o a \o <<"-">> \o v
        \o <<".", "j", "a", "r">>

\* The future of library i has resolved its coordinate.
Resolved(i) == task[i].st \in {"mkdir", "get", "write", "ok"}

\* C13: for a coordinate g:a:v with three parts the resolved relative path
\* is g with every "." replaced by "/", followed by /a/v/a-v.jar; the
\* resolution does no I/O, and two resolutions of the same coordinate give
\* the same path and the same mirror.
C13_Resolve ==
    /\ [](\A i \in DOMAIN libraries :
            ThreeParts(libraries[i]) =>
                /\ split_artifact(libraries[i])
                     = [some |-> TRUE, path |-> ExpectedPath(libraries[i])]
                /\ \A j \in DOMAIN libraries :
                      libraries[j] = libraries[i] =>
                          /\ {r.url : r \in RequestsOf(j)} \cup {r.url : r \in RequestsOf(i)}
                               \in {{}, {LibUrl(i)}}
                          /\ {e.path : e \in {w \in WritesOf(j) : w.op = "write"}}
                               \subseteq {LibPath(i)})
    /\ [][\A i \in DOMAIN task :
            (task[i].st = "queued" /\ Resolved(i)') =>
                http' = http /\ dirs' = dirs /\ files' = files /\ fsLog' = fsLog]_vars

\* Two libraries of the same three-part coordinate with a dotted group have
\* both been resolved and requested.
C13_Witness ==
    \E i, j \in DOMAIN libraries :
        /\ i # j
        /\ libraries[i] = libraries[j]
        /\ libraries[i] = <<"a", ".", "b", ".", "c", ":", "n", ":", "1">>
        /\ RequestsOf(i) # {} /\ RequestsOf(j) # {}

\* Library i's coordinate has fewer than three parts.
FewParts(i) == Len(Fields(libraries[i])) < 3

\* Nothing was done for library i but, at most, the failure of its
\* resolution.
FailedUnresolved(i) ==
    /\ task[i].st \in {"pending", "queued", "dropped", "err"}
    /\ RequestsOf(i) = {}
    /\ WritesOf(i) = {}
    /\ task[i].st = "err" =>
          result = "err" /\ error = "coordinate" /\ batch = "err"

\* C14 as stated: a coordinate with fewer than three parts fails with a
\* coordinate error before any directory is created or request issued for
\* it, and a coordinate is resolved only when it has exactly three parts.
C14_ExactlyThree ==
    \A i \in DOMAIN task :
        /\ FewParts(i) => FailedUnresolved(i)
        /\ Resolved(i) => Len(Fields(libraries[i])) = 3

\* C14, amended: a coordinate with fewer than three parts fails with a
\* coordinate error before any directory is created or request issued for
\* it, and a coordinate is resolved exactly when it has at least three
\* parts, the third part holding everything after the second ':'.
C14_AtLeastThree ==
    \A i \in DOMAIN task :
        /\ FewParts(i) => FailedUnresolved(i)
        /\ Resolved(i) => Len(Fields(libraries[i])) >= 3
        /\ (task[i].st = "err" /\ error = "coordinate") => FewParts(i)
        /\ ~FewParts(i) =>
              split_artifact(libraries[i]).some
              /\ LET f == Fields(libraries[i])
                     v == join(SubSeq(f, 3, Len(f)), <<":">>)
                 IN  split_artifact(libraries[i]).path
                       = [k \in DOMAIN f[1] |-> IF f[1][k] = "." THEN "/" ELSE f[1][k]]
                         \o <<"/">> \o f[2] \o <<"/">> \o v \o <<"/">> \o f[2]
                         \o <<"-">> \o v \o <<".", "j", "a", "r">>

\* A coordinate of four parts was resolved and returned, and one of two
\* parts has failed the batch.
C14_Witness ==
    /\ \E i \in DOMAIN task : libraries[i] = <<"a", ":", "n", ":", "1", ":", "2">> /\ task[i].st = "ok"
    /\ \E j \in DOMAIN task : FewParts(j) /\ task[j].st = "err"
    /\ result = "err" /\ error = "coordinate"

\* The group of the coordinate is org.quiltmc or a sub-group of it.
QuiltGroup(c) ==
    LET g == Fields(c)[1]
        q == <<"o", "r", "g", ".", "q", "u", "i", "l", "t", "m", "c">>
    IN  g = q \/ (Len(g) > Len(q) /\ SubSeq(g, 1, Len(q) + 1) = q \o <<".">>)

\* C15 as stated: the URL of a resolved artifact is mirror_base + "/" +
\* relative path, the mirror being the Quilt repository exactly when the
\* group is org.quiltmc or a sub-group of it and the Fabric repository for
\* every other group.
C15_ByGroup ==
    \A i \in DOMAIN task : \A r \in RequestsOf(i) :
        r.url = (IF QuiltGroup(libraries[i]) THEN QUILT_MAVEN ELSE FABRIC_MAVEN)
                \o <<"/">> \o split_artifact(libraries[i]).path

\* The relative path begins with the text org/quiltmc.
QuiltPathPrefix(rel) ==
    LET q == <<"o", "r", "g", "/", "q", "u", "i", "l", "t", "m", "c">>
    IN  Len(rel) >= Len(q) /\ SubSeq(rel, 1, Len(q)) = q

\* C15, amended: the URL of a resolved artifact is mirror_base + "/" +
\* relative path, the mirror being the Quilt repository exactly when the
\* relative path begins with the text org/quiltmc (the group org.quiltmc,
\* its sub-groups, and every other group or group and artifact that spell
\* this prefix) and the Fabric repository otherwise.
C15_ByPathPrefix ==
    \A i \in DOMAIN task : \A r \in RequestsOf(i) :
        LET rel == split_artifact(libraries[i]).path
        IN  r.url = (IF QuiltPathPrefix(rel) THEN QUILT_MAVEN ELSE FABRIC_MAVEN)
                    \o <<"/">> \o rel

\* A library of group org.quiltmcx and one of another group have been
\* requested, from the Quilt and from the Fabric repository.
C15_Witness ==
    /\ \E i \in DOMAIN task :
          /\ libraries[i] = <<"o", "r", "g", ".", "q", "u", "i", "l", "t", "m", "c", "x", ":", "n", ":", "1">>
          /\ \E r \in RequestsOf(i) : starts_with(r.url, QUILT_MAVEN)
    /\ \E j \in DOMAIN task :
          /\ libraries[j] = <<"a", ".", "b", ".", "c", ":", "n", ":", "1">>
          /\ \E r \in RequestsOf(j) : starts_with(r.url, FABRIC_MAVEN)

(***************************************************************************)
(* The Class-Path value and the write of the launch jar                    *)
(***************************************************************************)

\* A library path as text relative to the install directory.
RelativeText(p) == SubSeq(p, Len(InstallDir) + 2, Len(p))

\* The value of the Class-Path header of the archive written: its lines
\* unwrapped and decoded, without the header's name.
ClassPathValue ==
    LET text == from_utf8_lossy(Unwrapped)
    IN  SubSeq(text, Len(<<"C", "l", "a", "s", "s", "-", "P", "a", "t", "h", ":", " ">>) + 1, Len(text))

\* C16: the unwrapped Class-Path value written by create_launch_jar lists
\* every library path of the input sequence once per occurrence, relative
\* to the jar's parent directory with forward slashes, separated by single
\* spaces, in the order of the input sequence.
C16_ClassPathValue ==
    (JarReturned /\ result = "ok") =>
        LET value == ClassPathValue
        IN  splitn(Len(value) + 1, value, " ")
              = [i \in DOMAIN library_paths |-> RelativeText(library_paths[i])]

\* The path does not lie in the install directory, the parent of the jar.
Outside(p) == ~starts_with(p, InstallDir \o <<"/">>)

\* Nothing was created or modified at the path of the launch jar.
JarAsFound ==
    /\ (server_jar_path \in DOMAIN files) = (server_jar_path \in DOMAIN fs0.files)
    /\ server_jar_path \in DOMAIN files =>
          files[server_jar_path] = fs0.files[server_jar_path]
    /\ {e \in fsLog : e.path = server_jar_path} = {}

\* The archive was built and its write to the path of the jar was begun.
JarWriteBegun == pc = "done" /\ batch = "ok" /\ (result = "ok" \/ error = "io")

\* C17: create_launch_jar fails with a path error when a library path is
\* not under the jar's parent directory, and on this and on every other
\* failure before the archive is built nothing is created or modified at
\* the path of the jar, which is written once, when the archive has been
\* built.
C17_PathError ==
    /\ (pc = "done" /\ batch = "ok"
          /\ \E i \in DOMAIN library_paths : Outside(library_paths[i])) =>
            result = "err" /\ error = "path"
    /\ ~JarWriteBegun => JarAsFound

\* create_launch_jar has failed with a path error next to the launch jar
\* of an earlier install.
C17_Witness ==
    /\ pc = "done" /\ batch = "ok"
    /\ result = "err" /\ error = "path"
    /\ server_jar_path \in DOMAIN files
    /\ \E i \in DOMAIN library_paths : ~Outside(library_paths[i])

\* C18: generate_profile never bootstraps a registry: when
\* launcher_profiles.json is absent it fails and no registry file exists
\* afterwards, and when the file does not decode to the registry schema it
\* fails and the file's content stays as it was.
C18_NoBootstrap ==
    "generate_profile" \in invoked =>
        /\ profiles_json \notin DOMAIN fs0.files =>
              /\ profiles_json \notin DOMAIN files
              /\ pc \in {"g_read", "done"}
              /\ pc = "done" => result = "err" /\ error = "io"
        /\ (profiles_json \in DOMAIN fs0.files
              /\ fs0.files[profiles_json].kind # "registry") =>
              /\ profiles_json \in DOMAIN files
              /\ files[profiles_json] = fs0.files[profiles_json]
              /\ pc \in {"g_read", "done"}
              /\ pc = "done" => result = "err" /\ error \in {"io", "decode"}

\* generate_profile has failed to decode a registry file that is not one.
C18_Witness ==
    /\ "generate_profile" \in invoked
    /\ pc = "done" /\ result = "err" /\ error = "decode"
    /\ files[profiles_json].kind = "garbage"

\* The launcher registry has been written by this install.
RegistryWritten ==
    [by |-> Installer, op |-> "write", path |-> profiles_json] \in fsLog

\* versions/{profile-id}/ holds the zero-byte jar and the json with the
\* complete filtered profile document.
ClientFilesComplete ==
    /\ profile_dir \in dirs
    /\ client_jar_path \in DOMAIN files
    /\ files[client_jar_path] = EmptyFile
    /\ client_json_path \in DOMAIN files
    /\ files[client_json_path] = ProfileJson(retain(remote))

\* C19: in every Quilt client install, the step that writes the launcher
\* registry starts from a state where versions/{profile-id}/ already holds
\* the zero-byte jar and the json with the complete filtered profile
\* document, the files are still so once it is written, and the registry is
\* not written when the install fails.
C19_RegistryLast ==
    /\ [][(~RegistryWritten /\ RegistryWritten') =>
            (ClientFilesComplete /\ ClientFilesComplete')]_vars
    /\ [](RegistryWritten =>
            req.loader = "Quilt" /\ req.side = "Client" /\ ClientFilesComplete)
    /\ []((pc = "done" /\ result = "err") => ~RegistryWritten)

\* The registry has been written after the jar and the json, the json
\* holding a document some library was filtered out of.
C19_Witness ==
    /\ RegistryWritten
    /\ ClientFilesComplete
    /\ pc = "done" /\ result = "ok"
    /\ Len(retain(remote)) < Len(remote)
    /\ Len(retain(remote)) > 0

\* What versions/{profile-id}/ contains: its files with their contents, and
\* its subdirectories.
ProfileDirFiles ==
    [p \in {q \in DOMAIN files : Under(q, profile_dir)} |-> files[p]]

ProfileDirSubdirs == {d \in dirs : Under(d, profile_dir)}

\* What one successful client install leaves in the directory.
InstalledOnce ==
    (client_jar_path :> EmptyFile)
    @@ (client_json_path :> ProfileJson(retain(remote)))

ClientInstalled ==
    /\ req.loader = "Quilt" /\ req.side = "Client"
    /\ pc = "done" /\ result = "ok"

\* C20: whatever versions/{profile-id}/ contained before, after a successful
\* client install it contains exactly the empty {profile-id}.jar and
\* {profile-id}.json, so that an install run over the directory an earlier
\* one left gives the same contents as that one.
C20_Overwriting ==
    ClientInstalled =>
        /\ profile_dir \in dirs
        /\ ProfileDirFiles = InstalledOnce
        /\ ProfileDirSubdirs = {}
        /\ client_jar_path # client_json_path

\* A successful client install over the directory an earlier install left,
\* with a file of another origin in it.
C20_Witness ==
    /\ ClientInstalled
    /\ client_json_path \in DOMAIN fs0.files
    /\ fs0.files[client_json_path] = ProfileJson(retain(remote))
    /\ StrayFile \in DOMAIN fs0.files
    /\ ProfileDirFiles = InstalledOnce

\* Library i of the batch has been downloaded and completely written by
\* this run.
WrittenByBatch(i) ==
    /\ i \in DOMAIN task
    /\ task[i].st = "ok"
    /\ [by |-> Download(i), op |-> "write", path |-> LibPath(i)] \in fsLog

BatchFailed == pc = "done" /\ batch = "err"

\* C21: no step ever deletes a file under libraries/ or changes the content
\* of a library file an item of the batch has completely written; when the
\* batch has failed every such file is on disk with the body downloaded, and
\* download_library's cache test finds it.
C21_NoRollback ==
    /\ [][\A p \in DOMAIN files :
            Under(p, libraries_dir) =>
                /\ p \in DOMAIN files'
                /\ (\E i \in DOMAIN task : WrittenByBatch(i) /\ LibPath(i) = p)
                      => files'[p] = files[p]]_vars
    /\ [](BatchFailed =>
            \A i \in DOMAIN task :
                WrittenByBatch(i) =>
                    /\ LibPath(i) \in DOMAIN files
                    /\ files[LibPath(i)] = BodyOf(LibUrl(i))
                    /\ cache_hit(LibPath(i)))

\* The batch has failed after one of its items had written its library.
C21_Witness ==
    /\ BatchFailed
    /\ \E i \in DOMAIN task :
        /\ WrittenByBatch(i)
        /\ LibPath(i) \notin DOMAIN fs0.files
        /\ files[LibPath(i)] = BodyOf(LibUrl(i))
        /\ \E j \in DOMAIN task : j > i /\ task[j].st = "err"

\* The requests the download of library i has issued, and its writes.
RequestsBy(i) == {h \in http : h.by = Download(i)}

WritesBy(i) == {o \in fsLog : o.by = Download(i) /\ o.op = "write"}

\* The download of library i did not find its artifact on disk and has got
\* past create_dir_all.
Fetching(i) == task[i].st \in {"get", "write"} \/ WritesBy(i) # {}

\* The download of library i has failed on a response status that is not a
\* success.
StatusFailed(i) ==
    /\ task[i].st = "err"
    /\ error = "status"
    /\ pc = "done"

\* Another item of the batch has the same destination and has got a success
\* response for it.
WrittenByOther(i) ==
    \E j \in DOMAIN task \ {i} :
        /\ LibPath(j) = LibPath(i)
        /\ \E o \in fsLog : /\ o.op = "write" /\ o.path = LibPath(j)
                            /\ o.by \in {Download(j), Background}

RegWrites == {k \in DOMAIN regLog : regLog[k].op = "write"}

LastWrite == CHOOSE k \in RegWrites : \A j \in RegWrites : j <= k

\* The position of the read of a run (a run reads once).
ReadOf(run) == CHOOSE k \in DOMAIN regLog :
                  regLog[k].op = "read" /\ regLog[k].by = run

WriteOf(run) == CHOOSE k \in RegWrites : regLog[k].by = run

\* The key and the entry a run inserts.
KeyOf(run) ==
    IF run = Installer THEN registry_profile_name ELSE peer_profile_name

EntryOf(run) == IF run = Installer THEN new_profile ELSE peer_new_profile

OtherRun(run) == IF run = Installer THEN PeerRun ELSE Installer

\* The registry file holds the entry the run inserted.
Survives(run) ==
    /\ KeyOf(run) \in DOMAIN files[profiles_json].profiles
    /\ files[profiles_json].profiles[KeyOf(run)] = EntryOf(run)

\* C23: with two generate_profile runs on one registry file, after any
\* write the file is the snapshot the last writer read with that run's one
\* entry inserted; the entry the other run wrote is in the file exactly when
\* the last writer read the file after the other run's write.
C23_LastWriterWins ==
    RegWrites # {} =>
        LET w == regLog[LastWrite].by
            o == OtherRun(w)
            snapshot == regLog[ReadOf(w)].content
        IN  /\ ReadOf(w) < LastWrite
            /\ files[profiles_json] =
                  encode_registry(patch(decode_registry(snapshot),
                                        KeyOf(w), EntryOf(w)))
            /\ (\E k \in RegWrites : regLog[k].by = o) =>
                  (Survives(o) <=> WriteOf(o) < ReadOf(w))

\* Both runs have written, the last writer having read before the other
\* wrote: the other run's entry is not in the file.
C23_Witness ==
    /\ Cardinality(RegWrites) = 2
    /\ pc = "done" /\ peer.pc = "done"
    /\ LET w == regLog[LastWrite].by
       IN  /\ ReadOf(w) < WriteOf(OtherRun(w))
           /\ ~Survives(OtherRun(w))
           /\ Survives(w)

(***************************************************************************)
(* The install returns                                                     *)
(***************************************************************************)

\* A step of the batch download can be taken: the pool can take the next
\* library, a future in the pool can be polled, or the batch is complete.
PoolCanStep ==
    \/ slot_free(task) /\ \E i \in DOMAIN task : task[i].st = "pending"
    \/ pool_filled(task) /\ InFlight(task) # {}
    \/ \A i \in DOMAIN task : task[i].st = "ok"

\* A step of the install can be taken, given that every request and file
\* operation returns.
CanStep == pc = "pool" => PoolCanStep

\* How far the run is from its end at most: the steps of install left, then
\* the steps of the futures of the batch, then the blocking operations of
\* dropped futures.
PcRank ==
    CASE pc = "start" -> 9
      [] pc \in {"c_remove", "s_get"} -> 8
      [] pc = "c_mkdir" -> 7
      [] pc = "c_jar" -> 6
      [] pc = "c_json" -> 5
      [] pc = "c_get" -> 4
      [] pc \in {"c_copy", "pool"} -> 3
      [] pc \in {"g_read", "jar"} -> 2
      [] pc = "g_write" -> 1
      [] pc = "done" -> 0

TaskRank(st) ==
    CASE st = "pending" -> 5
      [] st = "queued" -> 4
      [] st = "mkdir" -> 3
      [] st = "get" -> 2
      [] st = "write" -> 1
      [] OTHER -> 0

TasksRank ==
    LET atLeast(k) == Cardinality({i \in DOMAIN task : TaskRank(task[i].st) >= k})
    IN  atLeast(1) + atLeast(2) + atLeast(3) + atLeast(4) + atLeast(5)

Rank == 100 * PcRank + TasksRank + Cardinality(detached)

\* C24: every install run returns success or a failure: as long as it has
\* not ended a step can be taken, whatever the number of libraries (the
\* pool neither deadlocks nor leaves a pending library out), every step
\* brings the run nearer to its end, and the run ends with Ok or Err.
C24_Returns ==
    /\ [](pc # "done" => CanStep)
    /\ [][Rank' < Rank]_vars
    /\ [](pc = "done" => result \in {"ok", "err"})

(***************************************************************************)
(* The launch jar and the libraries it names                               *)
(***************************************************************************)

\* The launch jar has been written by this install.
JarWritten ==
    [by |-> Installer, op |-> "write", path |-> server_jar_path] \in fsLog

\* The entries of the Class-Path value of the archive written.
ClassPathEntries ==
    LET value == ClassPathValue
        parts == splitn(Len(value) + 1, value, " ")
    IN  {parts[k] : k \in DOMAIN parts}

\* C25: in a Quilt server install the launch jar is written only after
\* every download of the batch has finished successfully, and when the
\* install returns success every path its Class-Path names exists as a file
\* under libraries/.
C25_JarAfterLibraries ==
    /\ [][(~JarWritten /\ JarWritten') =>
            /\ batch = "ok"
            /\ \A i \in DOMAIN task : task[i].st = "ok"
            /\ \A i \in DOMAIN task : LibPath(i) \in DOMAIN files]_vars
    /\ []((pc = "done" /\ result = "ok" /\ JarWritten) =>
            \A e \in ClassPathEntries :
                LET p == PathJoin(InstallDir, e)
                IN  p \in DOMAIN files /\ Under(p, libraries_dir))

(***************************************************************************)
(* Which runs write the launcher registry                                  *)
(***************************************************************************)

\* The run is one that is to register a profile.
Registering ==
    req.loader = "Quilt" /\ req.side = "Client" /\ req.generate

\* launcher_profiles.json is as the install found it, and no operation of
\* the run was on it.
RegistryAsFound ==
    /\ RegistryUntouched
    /\ \A k \in DOMAIN regLog : regLog[k].op = "read"

\* C26: launcher_profiles.json is written by an install only when the
\* loader is Quilt, the side is Client, the generate flag is set and every
\* earlier step of the client install has succeeded; in every other run,
\* and until then, the file is as the install found it.
C26_RegistryFrame ==
    /\ RegistryWritten =>
          /\ Registering
          /\ "generate_profile" \in invoked
          /\ ClientFilesComplete
          /\ pc = "done" /\ result = "ok"
    /\ ~RegistryWritten => RegistryAsFound
    /\ ~Registering =>
          /\ RegistryAsFound
          /\ "generate_profile" \notin invoked

\* A server install with the flag set has returned success and the registry
\* the install directory holds is as it was.
C26_Witness ==
    /\ req.loader = "Quilt" /\ req.side = "Server" /\ req.generate
    /\ pc = "done" /\ result = "ok"
    /\ profiles_json \in DOMAIN fs0.files
    /\ RegistryAsFound

(***************************************************************************)
(* The profile id of the registry and of the versions directory            *)
(***************************************************************************)

\* The versions/ subdirectory of a profile id, and the file of that name
\* with an extension in it.
VersionsDirOf(id) ==
    PathJoin(PathJoin(InstallDir, <<"v", "e", "r", "s", "i", "o", "n", "s">>), id)

VersionFileOf(id, ext) == PathJoin(VersionsDirOf(id), id \o ext)

\* The directory install_client created in this run, and the files.
CreatedDirs ==
    {e.path : e \in {o \in fsLog : o.by = Installer /\ o.op = "create_dir_all"}}

CreatedFiles ==
    {e.path : e \in {o \in fsLog : o.by = Installer /\ o.op = "create"}}

\* C27: in a Quilt client install with the generate flag the profile id
\* generate_profile computes, the key of the registry entry and its
\* lastVersionId, is the name of the versions/ subdirectory and of the jar
\* and json that install_client created in the same run, so that the
\* registered profile names a versions directory that exists.
C27_SameProfileId ==
    ("generate_profile" \in invoked) =>
        LET id == registry_profile_name
        IN  /\ new_profile.lastVersionId = id
            /\ CreatedDirs = {VersionsDirOf(id)}
            /\ CreatedFiles = {VersionFileOf(id, <<".", "j", "a", "r">>),
                               VersionFileOf(id, <<".", "j", "s", "o", "n">>)}
            /\ RegistryWritten =>
                /\ id \in DOMAIN files[profiles_json].profiles
                /\ LET to == files[profiles_json].profiles[id].lastVersionId
                   IN  /\ to = id
                       /\ VersionsDirOf(to) \in dirs
                       /\ VersionFileOf(to, <<".", "j", "a", "r">>) \in DOMAIN files
                       /\ VersionFileOf(to, <<".", "j", "s", "o", "n">>) \in DOMAIN files

\* The registry has been written with the entry of the profile, over a
\* registry that held another one.
C27_Witness ==
    /\ RegistryWritten
    /\ pc = "done" /\ result = "ok"
    /\ registry_profile_name \in DOMAIN files[profiles_json].profiles
    /\ OtherProfileId \in DOMAIN files[profiles_json].profiles
    /\ VersionsDirOf(registry_profile_name) \in dirs

(***************************************************************************)
(* The Install message and the Install button                              *)
(***************************************************************************)

\* This step is update(Message::Install).
HandlesInstall == gui'.pending["Install"] < gui.pending["Install"]

\* C28: for every selected tab and every selection, handling the Install
\* message starts exactly one loaders::install call, with the selected
\* loader version, side, location and Minecraft version, or emits an Error
\* message, when no Minecraft version or no loader version is selected,
\* and calls nothing; it never aborts the program.
C28_InstallOrError ==
    [][HandlesInstall =>
        /\ ~gui'.aborted
        /\ LET l == gui.selected_loader
               chosen == gui.minecraft[l].some /\ gui.version[l].some
           IN  IF chosen
               THEN /\ gui'.calls = Append(gui.calls, InstallCall(gui))
                    /\ gui'.pending["Error"] = gui.pending["Error"]
               ELSE /\ gui'.calls = gui.calls
                    /\ gui'.pending["Error"] = gui.pending["Error"] + 1]_vars

\* The installs in flight: started and not yet returned, or returned with
\* their InstallDone not yet handled.
Running == {k \in DOMAIN gui.calls : gui.calls[k].st = "running"}

Busy == Running # {} \/ gui.pending["InstallDone"] > 0

\* This step is a press of the Install button.
Presses == gui'.presses = gui.presses + 1

\* C29: at most one install started from the window is in flight: while
\* one is, a press of the Install button gives InstallPrevent and starts no
\* second loaders::install, until InstallDone has been handled.
C29_OneInFlight ==
    /\ [](Cardinality(Running) <= 1)
    /\ [][(Presses /\ Busy) =>
            /\ gui'.prevented = gui.prevented + 1
            /\ gui'.pending = gui.pending]_vars

====
